---------------------------- MODULE Spec2Model ----------------------------
(***************************************************************************)
(* A model of the orchestration core of ai-rules (TypeScript):             *)
(*   RuleVersionManager  - archive / deploy / rollback of rule files       *)
(*   QueueService        - three Bull queues and their processors          *)
(*   SchedulerService    - node-cron tasks and their handlers              *)
(*   TrendAnalyzer       - the trend cache and the update-priority score   *)
(*   NotificationService - WebSocket clients, subscriptions, broadcast     *)
(* Every asynchronous method is cut at its await points: one action per    *)
(* awaited file-system or library call, so that two calls in flight        *)
(* interleave exactly where the event loop lets them.                      *)
(***************************************************************************)
EXTENDS Integers, Sequences, FiniteSets, TLC

(***************************************************************************)
(* Bounds of the model.                                                    *)
(***************************************************************************)
MaxRuns == 2
MaxFaults == 1
MaxInstances == 2
MaxFirings == 2
MaxCallers == 3
MaxHours == 3
MaxSkips == 1
MaxCleanups == 2
MaxRetryCalls == 2
MaxClients == 3
MaxBroadcasts == 2
MaxMessages == 1002

(***************************************************************************)
(* Program constants.                                                      *)
(***************************************************************************)
HistoryCap == 50
GenerationConcurrency == 3
TrendConcurrency == 2
EmergencyConcurrency == 1
DefaultAttempts == 3
EmergencyAttempts == 5
\* The score under which the planned processor skips an update: 0.3, in tenths.
MinimumScore == 3
\* cacheDuration = 1000 * 60 * 60 * 2: two hours in milliseconds.
Hour == 1000 * 60 * 60
CacheDuration == Hour * 2
\* Scores are kept in ten-thousandths: 1.0 is ScoreUnit, 0.3 is 3000.
ScoreUnit == 10000
\* calculateUpdatePriority: totalRepos / 10000, totalQuestions / 1000,
\* weeklyGrowth / 20, and the 0.3 returned when no factor was counted.
RepoCeiling == 10000
QuestionCeiling == 1000
GrowthCeiling == 20
NeutralScore == 3000
\* weekly-rule-check: trends.updatePriority > 0.7.
PriorityThreshold == 7000
\* config.security.maxWebSocketClients (MAX_WEBSOCKET_CLIENTS, default '100').
MaxWebSocketClients == 100
\* maxHistorySize
MaxHistorySize == 1000

RunIds == 1..MaxRuns
RuleTypes == {<<"python", "best", "practices">>, <<"java", "best", "practices">>}
Versions == {<<"2025", "01">>, <<"2025", "02">>}
\* The content handed to the r-th call: each call brings its own.
ContentOf(r) == <<6 + r>>
Contents == {ContentOf(r) : r \in RunIds}
InitialContent == <<1, 2>>
\* What a path holds when no file is there (no content is this sequence).
NoFile == <<0 - 1>>
NoDeployment == [missing |-> TRUE]
IoOutcomes == BOOLEAN

Min(a, b) == IF a < b THEN a ELSE b

VARIABLES
  ruleFile,        \* ruleBasePath/<ruleType>.md : content, or NoFile
  archiveDir,      \* archivePath : set of [name, content]
  historyFile,     \* metadataPath/<ruleType>-history.json : sequence of entries
  deploymentFile,  \* metadataPath/<ruleType>-deployment.json : record, or NoDeployment
  clock,           \* the value the next new Date() yields
  faults,          \* I/O faults injected so far
  hist0,           \* length of each history at start (for counting)
  runs             \* the calls in flight: one record per call

storeVars == <<ruleFile, archiveDir, historyFile, deploymentFile, clock, faults, hist0, runs>>

VARIABLES
  instances,       \* QueueService objects constructed and never closed
  jobs,            \* the Bull jobs, numbered in the order they were added
  alerts           \* what NotificationService.sendAlert was called with

queueVars == <<instances, jobs, alerts>>

VARIABLES
  tasks            \* SchedulerService.scheduledTasks, with the callbacks in flight

schedVars == <<tasks>>

VARIABLES
  trendCache,      \* TrendAnalyzer.trendCache : technology -> {data, timestamp}
  callers,         \* the analyzeTechnology calls of one TrendAnalyzer
  dateNow,         \* Date.now(), in milliseconds
  fetches,         \* rounds of source fetches started, per technology
  invalidated      \* technologies not asked for since the last clearCache

trendVars == <<trendCache, callers, dateNow, fetches, invalidated>>

VARIABLES
  cleanup,         \* the cleanupOldArchives calls made and what the last one logged
  retry            \* the operator's retryFailedJobs call

opsVars == <<cleanup, retry>>

VARIABLES
  trends,          \* the argument calculateUpdatePriority is called with
  updatePriority   \* what it returned, or NotScored before the call

scoreVars == <<trends, updatePriority>>

VARIABLES
  sweep            \* the scheduled handler in flight and its local variables

sweepVars == <<sweep>>

VARIABLES
  clients,         \* NotificationService.clients : clientId -> ConnectedClient
  received,        \* the messages each socket has been sent, by channel
  broadcasts       \* the broadcast calls made and what the last one met

hubVars == <<clients, received, broadcasts>>

VARIABLES
  generation       \* one processRuleGeneration run and its generateRules call

genVars == <<generation>>

VARIABLES
  called           \* the last enableTask / disableTask / triggerTask call and what it returned

apiVars == <<called>>

VARIABLES
  toolCall         \* the MCP CallTool request being handled and its response

mcpVars == <<toolCall>>

VARIABLES
  messageHistory   \* NotificationService.messageHistory, oldest entry first

logVars == <<messageHistory>>

VARIABLES
  maxWebSocketClients  \* config.security.maxWebSocketClients, read from MAX_WEBSOCKET_CLIENTS

configVars == <<maxWebSocketClients>>

vars == <<storeVars, queueVars, schedVars, trendVars, opsVars, scoreVars,
          sweepVars, hubVars, genVars, apiVars, mcpVars, logVars, configVars>>
otherThanStore == <<queueVars, schedVars, trendVars, opsVars, scoreVars,
                    sweepVars, hubVars, genVars, apiVars, mcpVars, logVars, configVars>>
otherThanQueue == <<schedVars, trendVars, opsVars, scoreVars, sweepVars, hubVars, genVars, apiVars, mcpVars, logVars, configVars>>
otherThanSched == <<storeVars, queueVars, trendVars, opsVars, scoreVars,
                    sweepVars, hubVars, genVars, apiVars, mcpVars, logVars, configVars>>
otherThanTrend == <<queueVars, schedVars, opsVars, scoreVars, sweepVars, hubVars, genVars, apiVars, mcpVars, logVars, configVars>>
otherThanOps == <<schedVars, trendVars, scoreVars, sweepVars, hubVars, genVars, apiVars, mcpVars, logVars, configVars>>
otherThanScore == <<storeVars, queueVars, schedVars, trendVars, opsVars,
                    sweepVars, hubVars, genVars, apiVars, mcpVars, logVars, configVars>>
otherThanSweep == <<storeVars, schedVars, trendVars, opsVars, scoreVars, hubVars, genVars, apiVars, mcpVars, logVars, configVars>>
otherThanHub == <<storeVars, queueVars, schedVars, trendVars, opsVars,
                  scoreVars, sweepVars, genVars, apiVars, mcpVars, logVars, configVars>>
otherThanGen == <<storeVars, queueVars, schedVars, trendVars, opsVars,
                  scoreVars, sweepVars, hubVars, apiVars, mcpVars, logVars, configVars>>
otherThanMcp == <<queueVars, schedVars, trendVars, opsVars, scoreVars,
                  sweepVars, hubVars, genVars, apiVars, logVars, configVars>>
otherThanHubAndLog == <<storeVars, queueVars, schedVars, trendVars, opsVars,
                        scoreVars, sweepVars, genVars, apiVars, mcpVars,
                        configVars>>

(***************************************************************************)
(* Jobs and scheduled tasks before anything has been added or has fired.   *)
(***************************************************************************)
Jobs == RunIds
Technologies == {"python", "java"}
Lanes == {"rule-generation", "trend-analysis", "emergency-updates"}
\* The priorities the callers in SchedulerService pass ('low' is never passed).
Priorities == {"medium", "high"}
\* technology: '' in a trend-analysis job means all technologies.
AllTechnologies == ""
\* trends.updatePriority in tenths: one value under 0.3, one over 0.7.
Scores == {2, 8}

NoJob ==
  [state |-> "none", lane |-> "none", technology |-> "none", priority |-> 0,
   attempts |-> 0, attemptsMade |-> 0, hpc |-> "none", result |-> "none",
   triggeredBy |-> "none", score |-> 0, failedAt |-> "none"]

\* The tasks setupScheduledTasks registers (three of the six: two whose
\* handler rethrows, one whose handler catches everything itself).
TaskNames == {"daily-trend-analysis", "monthly-comprehensive-update",
              "system-health-check"}

\* scheduleTask's entry: enabled: true, runCount: 0, errorCount: 0; running
\* counts the callbacks of the task that have started and not yet returned.
\* skipped counts the "Skipping disabled task" lines logged; nextRun is
\* computed once, at registration.
NewTask == [enabled |-> TRUE, runCount |-> 0, errorCount |-> 0, running |-> 0,
            lastRun |-> 0, skipped |-> 0, nextRun |-> 1]

QueueIdle ==
  /\ instances = 0
  /\ jobs = [j \in Jobs |-> NoJob]
  /\ alerts = {}

SchedIdle == tasks = [n \in TaskNames |-> NewTask]

\* No cleanup and no retry call made yet.
NoCleanup == [calls |-> 0, cutoff |-> 0, marked |-> 0]

NoRetry == [pc |-> "idle", lane |-> "none", failedJobs |-> <<>>, todo |-> <<>>,
            retriedCount |-> 0, calls |-> 0]

OpsIdle ==
  /\ cleanup = NoCleanup
  /\ retry = NoRetry

\* No score computed, no handler of a sweep running, nobody connected.
ScoreIdle ==
  /\ trends = [totalRepos |-> 0, totalQuestions |-> 0, weeklyGrowth |-> 0,
               breakingChanges |-> 0]
  /\ updatePriority = 0 - 1

\* config.rules.supportedTechnologies, in the order the handlers walk it.
SupportedTechnologies == <<"python", "java">>

\* trends: null, the analysis of the technology having thrown: the
\* technology is no key of allTrends.
NoTrends == [totalRepos |-> 0 - 1, totalQuestions |-> 0, weeklyGrowth |-> 0,
             breakingChanges |-> 0]

\* No handler of a sweep has started.  todo is what the handler's loop has
\* still to visit, attempts the add calls it has awaited, in order.
IdleSweep ==
  [task |-> "none", pc |-> "idle", todo |-> <<>>,
   attempts |-> <<>>, successful |-> 0, failed |-> 0, flagged |-> {},
   summary |-> "none", allTrends |-> [t \in Technologies |-> NoTrends]]

SweepIdle == sweep = IdleSweep

ClientIds == 1..MaxClients

\* A clientId not yet generated: no socket, no entry in the clients map.
\* connected says whether the id is a key of the map, readyState is
\* ws.readyState of its socket.
NoClient == [connected |-> FALSE, subscriptions |-> {}, readyState |-> "NONE"]

\* No notification method called yet.  channels are the channels the last
\* call broadcast on, threw the sockets whose send threw during it.
NoBroadcast == [calls |-> 0, channels |-> <<>>, threw |-> {}]

HubIdle ==
  /\ clients = [c \in ClientIds |-> NoClient]
  /\ received = {}
  /\ broadcasts = NoBroadcast

\* The research categories and search providers of a generateRules call (two
\* of the four categories, the first and the last of the providers).
Categories == {"bestPractices", "security"}
SearchProviders == <<"brave", "web-scraping">>
ProviderNames == {SearchProviders[i] : i \in DOMAIN SearchProviders}

\* No rule-generation job dispatched yet.  todo holds, per category, the
\* providers searchMultipleProviders has still to ask; allResults the
\* results pushed so far; timedOut the calls whose deadline passed; rules the
\* results the document was built from.
NoGeneration ==
  [state |-> "waiting", pc |-> "none",
   todo |-> [c \in Categories |-> <<>>],
   allResults |-> [c \in Categories |-> {}],
   timedOut |-> {}, rules |-> {}, synthesized |-> FALSE,
   archived |-> FALSE, deployed |-> FALSE, result |-> "none"]

GenIdle == generation = NoGeneration

\* No call of the scheduler's public methods made yet.
NoCall == [method |-> "none", taskName |-> "none", returned |-> FALSE]

ApiIdle == called = NoCall

\* No CallTool request received yet.  n numbers the requests, failedAt is
\* where the handling threw, completed whether a handler reached its return.
NoToolCall ==
  [n |-> 0, pc |-> "idle", name |-> "none", technology |-> "none",
   year |-> "none", failedAt |-> "none", completed |-> FALSE,
   response |-> "none"]

McpIdle == toolCall = NoToolCall

\* Nothing broadcast yet.
LogIdle == messageHistory = <<>>

\* MAX_WEBSOCKET_CLIENTS left at its default.
ConfigIdle == maxWebSocketClients = MaxWebSocketClients

CallerIds == 1..MaxCallers

\* trendCache.get(technology) of a technology never analysed: undefined.
NoEntry == [present |-> FALSE, data |-> 0, timestamp |-> 0]

IdleCaller == [pc |-> "idle", technology |-> "none", round |-> 0, result |-> 0]

\* A TrendAnalyzer after construction, nobody calling it.
TrendIdle ==
  /\ trendCache = [t \in Technologies |-> NoEntry]
  /\ callers = [c \in CallerIds |-> IdleCaller]
  /\ dateNow = 0
  /\ fetches = [t \in Technologies |-> 0]
  /\ invalidated = {}

(***************************************************************************)
(* Pure functions of RuleVersionManager.                                   *)
(***************************************************************************)
TypeCode(ruleType) == IF ruleType[1] = "python" THEN 3 ELSE 4

VersionCode(version) == IF version = <<"2025", "01">> THEN 5 ELSE 6

\* addVersionHeader: the header lines (version, generation date, type), then
\* the content.
addVersionHeader(content, version, ruleType, now) ==
  <<VersionCode(version), now, TypeCode(ruleType)>> \o content

\* One round of the checksum loop: ((checksum << 5) - checksum + c) & 0xffffffff.
\* The contents of the model keep the value far below 2^31, where the mask
\* leaves it as it is.
ChecksumStep(checksum, c) == (checksum * 32) - checksum + c

RECURSIVE ChecksumLoop(_, _, _)
ChecksumLoop(content, i, checksum) ==
  IF i > Len(content) THEN checksum
  ELSE ChecksumLoop(content, i + 1, ChecksumStep(checksum, content[i]))

\* Number.prototype.toString(16) of a non-negative integer: its hex digits.
RECURSIVE ToString16(_)
ToString16(n) == IF n < 16 THEN <<n>> ELSE ToString16(n \div 16) \o <<n % 16>>

calculateChecksum(content) == ToString16(ChecksumLoop(content, 1, 0))

\* `${ruleType}-${version}-${timestamp}.md`, as its dash-separated parts.
ArchiveFileName(ruleType, version, timestamp) == ruleType \o version \o <<timestamp>>

StartsWith(name, prefix) ==
  /\ Len(name) >= Len(prefix)
  /\ SubSeq(name, 1, Len(prefix)) = prefix

\* history.push(newEntry) without the slice that follows it.
PushEntryNoCap(history, entry) == Append(history, entry)

\* history.push(newEntry); if (history.length > 50) history = history.slice(-50)
PushEntry(history, entry) ==
  LET h == Append(history, entry)
  IN IF Len(h) > HistoryCap THEN SubSeq(h, Len(h) - HistoryCap + 1, Len(h)) ELSE h

\* writeFile(archivePath, ...): creates or overwrites the file of that name.
WriteArchive(dir, name, content) ==
  {f \in dir : f.name # name} \cup {[name |-> name, content |-> content]}

\* The entries a history holds before the model starts: earlier archives.
PriorEntry(i) ==
  [version |-> <<"2024", "12">>, date |-> 0 - i, reason |-> "scheduled_update",
   filePath |-> <<"prior", i>>]

PriorHistory(n) == [i \in 1..n |-> PriorEntry(n - i + 1)]

(***************************************************************************)
(* The record of one call.                                                 *)
(***************************************************************************)
IdleRun ==
  [pc |-> "idle", kind |-> "none", ruleType |-> <<>>, content |-> <<>>,
   version |-> <<>>, archVersion |-> <<>>, ts |-> 0, cur |-> <<>>,
   meta |-> <<>>, hist |-> <<>>, versioned |-> <<>>, cnt |-> 0,
   target |-> <<>>, err |-> "none",
   hadActive |-> FALSE, overlapped |-> FALSE, faulted |-> FALSE,
   wroteActive |-> FALSE, archiveReturned |-> FALSE, deployStarted |-> FALSE]

ArchivePcs == {"archStat", "archRead", "archWrite", "histLoad", "histSave"}
DeployPcs == {"deployWrite", "depCount", "depSave"}
RollbackPcs == {"rbFind", "rbRead", "rbWrite", "rbHistLoad", "rbHistSave"}
InFlight(r) == runs[r].pc \in ArchivePcs \cup DeployPcs \cup RollbackPcs

\* An I/O call either succeeds or, while the fault budget lasts, fails.
Io(ok) ==
  /\ ok \in IoOutcomes
  /\ ~ok => faults < MaxFaults
  /\ faults' = IF ok THEN faults ELSE faults + 1

\* A call that has returned or thrown keeps none of its locals.
Finished(run, pc, err, faulted) ==
  [IdleRun EXCEPT !.pc = pc, !.kind = run.kind, !.ruleType = run.ruleType,
                  !.err = err, !.hadActive = run.hadActive,
                  !.overlapped = run.overlapped,
                  !.faulted = run.faulted \/ faulted,
                  !.wroteActive = run.wroteActive,
                  !.archiveReturned = run.archiveReturned,
                  !.deployStarted = run.deployStarted]

\* Calls are numbered in the order they are made.
NextCall(r) ==
  /\ runs[r].pc = "idle"
  /\ \A o \in RunIds : o < r => runs[o].pc # "idle"

BeginRun(r, rec) ==
  LET busy == {o \in RunIds \ {r} : InFlight(o) /\ runs[o].ruleType = rec.ruleType}
  IN runs' = [o \in RunIds |->
                IF o = r THEN [rec EXCEPT !.overlapped = busy # {}]
                ELSE IF o \in busy THEN [runs[o] EXCEPT !.overlapped = TRUE]
                ELSE runs[o]]


(***************************************************************************)
(* RuleVersionManager.archiveCurrentRule, one action per await.            *)
(***************************************************************************)
\* Where the caller goes on when archiveCurrentRule returns.
AfterArchive(run) == IF run.kind = "update" THEN "deployWrite" ELSE "rbRead"

\* A caller that would go on as if archiveCurrentRule had returned.
AfterArchiveThrowSwallowed(run) == AfterArchive(run)

\* Where control goes when archiveCurrentRule throws: both callers
\* (handleUpdateRuleFile, processRuleGeneration) and rollbackToVersion leave
\* their try block, so nothing after the call runs.
AfterArchiveThrow(run) == "failed"

\* await stat(currentRulePath): any error means "no current rule, skip".
ArchiveStat(r) ==
  /\ runs[r].pc = "archStat"
  /\ \E ok \in IoOutcomes :
       /\ Io(ok)
       /\ IF ok /\ ruleFile[runs[r].ruleType] # NoFile
          THEN /\ runs' = [runs EXCEPT ![r].pc = "archRead", ![r].ts = clock,
                                       ![r].hadActive = TRUE,
                                       ![r].faulted = runs[r].faulted \/ ~ok]
               /\ clock' = clock + 1
          ELSE /\ runs' = [runs EXCEPT ![r].pc = AfterArchive(runs[r]),
                                       ![r].archiveReturned = TRUE,
                                       ![r].faulted = runs[r].faulted \/ ~ok]
               /\ clock' = clock
  /\ UNCHANGED <<ruleFile, archiveDir, historyFile, deploymentFile, hist0, otherThanStore>>

\* await readFile(currentRulePath)
ArchiveRead(r) ==
  /\ runs[r].pc = "archRead"
  /\ \E ok \in IoOutcomes :
       /\ Io(ok)
       /\ IF ok /\ ruleFile[runs[r].ruleType] # NoFile
          THEN runs' = [runs EXCEPT ![r].pc = "archWrite",
                                    ![r].cur = ruleFile[runs[r].ruleType]]
          ELSE runs' = [runs EXCEPT ![r] = Finished(runs[r], AfterArchiveThrow(runs[r]),
                                                      "archive", TRUE)]
  /\ UNCHANGED <<ruleFile, archiveDir, historyFile, deploymentFile, clock, hist0, otherThanStore>>

\* await writeFile(archivePath, currentContent), then the call of
\* updateRuleMetadata with the entry for this archive.
ArchiveWrite(r) ==
  /\ runs[r].pc = "archWrite"
  /\ \E ok \in IoOutcomes :
       /\ Io(ok)
       /\ LET name == ArchiveFileName(runs[r].ruleType, runs[r].archVersion, runs[r].ts)
          IN IF ok
             THEN /\ archiveDir' = WriteArchive(archiveDir, name, runs[r].cur)
                  /\ runs' = [runs EXCEPT ![r].pc = "histLoad",
                                ![r].meta = [version |-> runs[r].archVersion,
                                             date |-> clock,
                                             reason |-> "scheduled_update",
                                             filePath |-> name]]
                  /\ clock' = clock + 1
             ELSE /\ runs' = [runs EXCEPT ![r] = Finished(runs[r], AfterArchiveThrow(runs[r]),
                                                      "archive", TRUE)]
                  /\ UNCHANGED <<archiveDir, clock>>
  /\ UNCHANGED <<ruleFile, historyFile, deploymentFile, hist0, otherThanStore>>

(***************************************************************************)
(* RuleVersionManager.updateRuleMetadata: load, push, save.  A failed load *)
(* starts from an empty history; a failed save is logged and swallowed.    *)
(***************************************************************************)
LoadHistory(r, ok, next) ==
  runs' = [runs EXCEPT ![r].pc = next,
                       ![r].hist = IF ok THEN historyFile[runs[r].ruleType] ELSE <<>>,
                       ![r].faulted = runs[r].faulted \/ ~ok]

SaveHistory(r, ok) ==
  historyFile' = IF ok
                 THEN [historyFile EXCEPT ![runs[r].ruleType] =
                                            PushEntry(runs[r].hist, runs[r].meta)]
                 ELSE historyFile

HistLoad(r) ==
  /\ runs[r].pc = "histLoad"
  /\ \E ok \in IoOutcomes : Io(ok) /\ LoadHistory(r, ok, "histSave")
  /\ UNCHANGED <<ruleFile, archiveDir, historyFile, deploymentFile, clock, hist0, otherThanStore>>

HistSave(r) ==
  /\ runs[r].pc = "histSave"
  /\ \E ok \in IoOutcomes :
       /\ Io(ok)
       /\ SaveHistory(r, ok)
       /\ runs' = [runs EXCEPT ![r].pc = AfterArchive(runs[r]),
                               ![r].archiveReturned = TRUE,
                               ![r].faulted = runs[r].faulted \/ ~ok]
  /\ UNCHANGED <<ruleFile, archiveDir, deploymentFile, clock, hist0, otherThanStore>>

(***************************************************************************)
(* RuleVersionManager.deployNewRule and updateDeploymentMetadata.          *)
(***************************************************************************)
\* await writeFile(rulePath, versionedContent)
DeployWrite(r) ==
  /\ runs[r].pc = "deployWrite"
  /\ \E ok \in IoOutcomes :
       /\ Io(ok)
       /\ LET versioned == addVersionHeader(runs[r].content, runs[r].version,
                                            runs[r].ruleType, clock)
          IN IF ok
             THEN /\ ruleFile' = [ruleFile EXCEPT ![runs[r].ruleType] = versioned]
                  /\ runs' = [runs EXCEPT ![r].pc = "depCount",
                                          ![r].versioned = versioned,
                                          ![r].deployStarted = TRUE,
                                          ![r].wroteActive = TRUE]
             ELSE /\ runs' = [runs EXCEPT ![r] = Finished([runs[r] EXCEPT !.deployStarted = TRUE],
                                                      "failed", "deploy", TRUE)]
                  /\ UNCHANGED ruleFile
  /\ clock' = clock + 1
  /\ UNCHANGED <<archiveDir, historyFile, deploymentFile, hist0, otherThanStore>>

\* getDeploymentCount: deploymentInfo.deploymentCount || 0, and 0 on any error.
DepCount(r) ==
  /\ runs[r].pc = "depCount"
  /\ \E ok \in IoOutcomes :
       /\ Io(ok)
       /\ runs' = [runs EXCEPT ![r].pc = "depSave",
                     ![r].cnt = IF ok /\ deploymentFile[runs[r].ruleType] # NoDeployment
                                THEN deploymentFile[runs[r].ruleType].deploymentCount
                                ELSE 0,
                     ![r].faulted = runs[r].faulted \/ ~ok]
  /\ UNCHANGED <<ruleFile, archiveDir, historyFile, deploymentFile, clock, hist0, otherThanStore>>

DeploymentInfo(run) ==
  [currentVersion |-> run.version,
   contentLength |-> Len(run.versioned),
   checksum |-> calculateChecksum(run.versioned),
   deploymentCount |-> run.cnt + 1]

\* await writeFile(deploymentPath, ...): a failure is logged and swallowed.
DepSave(r) ==
  /\ runs[r].pc = "depSave"
  /\ \E ok \in IoOutcomes :
       /\ Io(ok)
       /\ deploymentFile' = IF ok
                            THEN [deploymentFile EXCEPT ![runs[r].ruleType] =
                                                          DeploymentInfo(runs[r])]
                            ELSE deploymentFile
       /\ runs' = [runs EXCEPT ![r] = Finished(runs[r], "done", "none", ~ok)]
  /\ UNCHANGED <<ruleFile, archiveDir, historyFile, clock, hist0, otherThanStore>>

(***************************************************************************)
(* RuleVersionManager.rollbackToVersion.                                   *)
(***************************************************************************)
\* The versions an operator may ask a rollback to: the versions deployed, and
\* the bare year.
RollbackVersions == Versions \cup {<<"2025">>}

\* `rollback-backup-${date}`
RollbackBackupVersion == <<"rollback", "backup", "2025", "01", "15">>

\* archiveFiles.find(file => file.startsWith(`${ruleType}-${version}-`))
MatchingArchives(ruleType, version) ==
  {f \in archiveDir : StartsWith(f.name, ruleType \o version)}

\* await readdir(archivePath), then the search.  readdir yields the names in
\* no promised order, so find may return any of the matches.
RbFind(r) ==
  /\ runs[r].pc = "rbFind"
  /\ \E ok \in IoOutcomes :
       /\ Io(ok)
       /\ LET found == MatchingArchives(runs[r].ruleType, runs[r].version)
          IN IF ok /\ found # {}
             THEN \E f \in found :
                    runs' = [runs EXCEPT ![r].pc = "archStat", ![r].target = f]
             ELSE runs' = [runs EXCEPT ![r] = Finished(runs[r], "failed",
                                     IF ok THEN "notFound" ELSE "readdir", ~ok)]
  /\ UNCHANGED <<ruleFile, archiveDir, historyFile, deploymentFile, clock, hist0, otherThanStore>>

\* await readFile(archivePath)
RbRead(r) ==
  /\ runs[r].pc = "rbRead"
  /\ \E ok \in IoOutcomes :
       /\ Io(ok)
       /\ LET files == {f \in archiveDir : f.name = runs[r].target.name}
          IN IF ok /\ files # {}
             THEN \E f \in files :
                    runs' = [runs EXCEPT ![r].pc = "rbWrite", ![r].cur = f.content]
             ELSE runs' = [runs EXCEPT ![r] = Finished(runs[r], "failed", "rollback", TRUE)]
  /\ UNCHANGED <<ruleFile, archiveDir, historyFile, deploymentFile, clock, hist0, otherThanStore>>

\* await writeFile(rulePath, archivedContent), then the call of
\* updateRuleMetadata with the rollback entry.
RbWrite(r) ==
  /\ runs[r].pc = "rbWrite"
  /\ \E ok \in IoOutcomes :
       /\ Io(ok)
       /\ IF ok
          THEN /\ ruleFile' = [ruleFile EXCEPT ![runs[r].ruleType] = runs[r].cur]
               /\ runs' = [runs EXCEPT ![r].pc = "rbHistLoad",
                             ![r].wroteActive = TRUE,
                             ![r].meta = [version |-> runs[r].version \o <<"rollback">>,
                                          date |-> clock,
                                          reason |-> "manual_rollback",
                                          filePath |-> runs[r].target.name]]
               /\ clock' = clock + 1
          ELSE /\ runs' = [runs EXCEPT ![r] = Finished(runs[r], "failed", "rollback", TRUE)]
               /\ UNCHANGED <<ruleFile, clock>>
  /\ UNCHANGED <<archiveDir, historyFile, deploymentFile, hist0, otherThanStore>>

RbHistLoad(r) ==
  /\ runs[r].pc = "rbHistLoad"
  /\ \E ok \in IoOutcomes : Io(ok) /\ LoadHistory(r, ok, "rbHistSave")
  /\ UNCHANGED <<ruleFile, archiveDir, historyFile, deploymentFile, clock, hist0, otherThanStore>>

RbHistSave(r) ==
  /\ runs[r].pc = "rbHistSave"
  /\ \E ok \in IoOutcomes :
       /\ Io(ok)
       /\ SaveHistory(r, ok)
       /\ runs' = [runs EXCEPT ![r] = Finished(runs[r], "done", "none", ~ok)]
  /\ UNCHANGED <<ruleFile, archiveDir, deploymentFile, clock, hist0, otherThanStore>>

(***************************************************************************)
(* The callers.                                                            *)
(***************************************************************************)
\* What both callers do with (ruleType, content, version):
\*   await archiveCurrentRule(ruleType, version);
\*   await deployNewRule(ruleType, content, version);
ArchiveThenDeploy(ruleType, content, version) ==
  [IdleRun EXCEPT !.pc = "archStat", !.kind = "update", !.ruleType = ruleType,
                  !.content = content, !.version = version, !.archVersion = version]

\* The MCP tool update_rule_file.
handleUpdateRuleFile(r) ==
  /\ NextCall(r)
  /\ \E ruleType \in RuleTypes, version \in Versions :
       BeginRun(r, ArchiveThenDeploy(ruleType, ContentOf(r), version))
  /\ UNCHANGED <<ruleFile, archiveDir, historyFile, deploymentFile, clock, faults, hist0, otherThanStore>>

\* The operator's rollback: the search comes first, the backup archive next.
rollbackToVersion(r) ==
  /\ NextCall(r)
  /\ \E ruleType \in RuleTypes, version \in RollbackVersions :
       BeginRun(r, [IdleRun EXCEPT !.pc = "rbFind", !.kind = "rollback",
                                   !.ruleType = ruleType, !.version = version,
                                   !.archVersion = RollbackBackupVersion])
  /\ UNCHANGED <<ruleFile, archiveDir, historyFile, deploymentFile, clock, faults, hist0, otherThanStore>>

\* Array.prototype.sort with (a, b) => b.date - a.date is stable: of two
\* entries of one date the one that stood first stays first.  Two sorted
\* runs, `first` holding the entries that stood first, are merged.
RECURSIVE MergeByDate(_, _)
MergeByDate(first, second) ==
  IF first = <<>> THEN second
  ELSE IF second = <<>> THEN first
  ELSE IF first[Len(first)].date >= Head(second).date THEN first \o second
  ELSE IF second[Len(second)].date > Head(first).date THEN second \o first
  ELSE IF Head(second).date > Head(first).date
       THEN <<Head(second)>> \o MergeByDate(first, Tail(second))
       ELSE <<Head(first)>> \o MergeByDate(Tail(first), second)

RECURSIVE SortByDateDesc(_)
SortByDateDesc(entries) ==
  IF Len(entries) <= 1 THEN entries
  ELSE MergeByDate(SortByDateDesc(SubSeq(entries, 1, Len(entries) \div 2)),
                   SortByDateDesc(SubSeq(entries, Len(entries) \div 2 + 1,
                                         Len(entries))))

\* getRuleHistory: the stored entries, most recent first.
getRuleHistory(ruleType) == SortByDateDesc(historyFile[ruleType])

\* getRuleVersionInfo: what a reader of the deployment metadata sees.
getRuleVersionInfo(ruleType) == deploymentFile[ruleType]

(***************************************************************************)
(* The store on its own: MCP updates and rollbacks in flight together.     *)
(***************************************************************************)
\* A rule type starts with no rule file, or with one and either no history
\* yet or a history one short of the cap.
StoreStarts ==
  {[file |-> NoFile, len |-> 0],
   [file |-> InitialContent, len |-> 0],
   [file |-> InitialContent, len |-> HistoryCap - 1]}

StoreInit ==
  /\ \E start \in [RuleTypes -> StoreStarts] :
       /\ ruleFile = [t \in RuleTypes |-> start[t].file]
       /\ historyFile = [t \in RuleTypes |-> PriorHistory(start[t].len)]
       /\ hist0 = [t \in RuleTypes |-> start[t].len]
  /\ archiveDir = {}
  /\ deploymentFile = [t \in RuleTypes |-> NoDeployment]
  /\ clock = 1
  /\ faults = 0
  /\ runs = [r \in RunIds |-> IdleRun]
  /\ QueueIdle
  /\ SchedIdle
  /\ TrendIdle
  /\ OpsIdle
  /\ ScoreIdle
  /\ SweepIdle
  /\ HubIdle
  /\ GenIdle
  /\ ApiIdle
  /\ McpIdle
  /\ LogIdle
  /\ ConfigIdle

StoreStep(r) ==
  \/ ArchiveStat(r) \/ ArchiveRead(r) \/ ArchiveWrite(r)
  \/ HistLoad(r) \/ HistSave(r)
  \/ DeployWrite(r) \/ DepCount(r) \/ DepSave(r)
  \/ RbFind(r) \/ RbRead(r) \/ RbWrite(r) \/ RbHistLoad(r) \/ RbHistSave(r)

StoreNext ==
  \E r \in RunIds :
    \/ handleUpdateRuleFile(r)
    \/ rollbackToVersion(r)
    \/ StoreStep(r)

SpecStore == StoreInit /\ [][StoreNext]_vars

(***************************************************************************)
(* QueueService: three Bull queues.  Bull itself is a library; what is     *)
(* modelled of it is what the calls made here rely on: add() makes a job   *)
(* wait, process(n, handler) lets each QueueService object run up to n     *)
(* handlers of the queue at once, the waiting job of lowest priority       *)
(* number (oldest first) is taken next, a handler that resolves completes  *)
(* the job, a handler that rejects is retried until `attempts` is used up. *)
(***************************************************************************)
RuleTypeOf(technology) == <<technology, "best", "practices">>

\* `${year}-${month}` of the day the handler runs.
CurrentVersion == <<"2025", "01">>

getPriorityNumber(priority) ==
  CASE priority = "low" -> 10
    [] priority = "medium" -> 5
    [] priority = "high" -> 1

\* A queue for which process() was never called.
ConcurrencyUnregistered(lane) == 0

\* process(concurrency, handler), per QueueService object.
Concurrency(lane) ==
  CASE lane = "rule-generation" -> GenerationConcurrency
    [] lane = "trend-analysis" -> TrendConcurrency
    [] lane = "emergency-updates" -> EmergencyConcurrency

\* defaultJobOptions.attempts of each queue.
Attempts(lane) ==
  IF lane = "emergency-updates" THEN EmergencyAttempts ELSE DefaultAttempts

ActiveIn(lane) == {j \in Jobs : jobs[j].state = "active" /\ jobs[j].lane = lane}
WaitingIn(lane) ==
  {j \in Jobs : jobs[j].state \in {"waiting", "delayed"} /\ jobs[j].lane = lane}

\* new QueueService(): the constructor registers three more processors on the
\* same three queues (setupQueueProcessors); nothing ever closes the object.
NewQueueService ==
  /\ instances < MaxInstances
  /\ instances' = instances + 1

\* SchedulerService.start(): this.queueService = new QueueService().
SchedulerStart ==
  /\ NewQueueService
  /\ UNCHANGED <<jobs, alerts, storeVars, otherThanQueue>>

\* NotificationService.broadcastSystemStatus(): getQueueStats constructs a
\* QueueService of its own for every broadcast.
broadcastSystemStatus ==
  /\ NewQueueService
  /\ UNCHANGED <<jobs, alerts, storeVars, otherThanQueue>>

NextJob(j) ==
  /\ instances >= 1
  /\ jobs[j].state = "none"
  /\ \A o \in Jobs : o < j => jobs[o].state # "none"

\* Every caller in SchedulerService passes triggeredBy: 'schedule'.
Added(lane, technology, priorityNumber) ==
  [NoJob EXCEPT !.state = "waiting", !.lane = lane, !.technology = technology,
                !.priority = priorityNumber, !.attempts = Attempts(lane),
                !.triggeredBy = "schedule"]

addRuleGenerationJob(j) ==
  /\ NextJob(j)
  /\ \E technology \in Technologies, priority \in Priorities :
       jobs' = [jobs EXCEPT ![j] = Added("rule-generation", technology,
                                         getPriorityNumber(priority))]
  /\ UNCHANGED <<instances, alerts, storeVars, otherThanQueue>>

addTrendAnalysisJob(j) ==
  /\ NextJob(j)
  /\ \E priority \in Priorities :
       jobs' = [jobs EXCEPT ![j] = Added("trend-analysis", AllTechnologies,
                                         getPriorityNumber(priority))]
  /\ UNCHANGED <<instances, alerts, storeVars, otherThanQueue>>

\* priority: 1, "always highest priority" (within the emergency queue).
addEmergencyUpdateJob(j) ==
  /\ NextJob(j)
  /\ \E technology \in Technologies :
       jobs' = [jobs EXCEPT ![j] = Added("emergency-updates", technology, 1)]
  /\ UNCHANGED <<instances, alerts, storeVars, otherThanQueue>>

\* A free processor of the job's own queue takes it.  Each queue looks at its
\* own waiting jobs only.
FreeProcessor(lane) == Cardinality(ActiveIn(lane)) < instances * Concurrency(lane)

\* A queue that would hand any waiting job to a free processor.
TakenNextAnyWaiting(j) == jobs[j].state \in {"waiting", "delayed"}

\* The job Bull takes next: the one of the lowest priority number, the one
\* added first among those.
TakenNext(j) ==
  \A o \in WaitingIn(jobs[j].lane) :
    \/ jobs[j].priority < jobs[o].priority
    \/ (jobs[j].priority = jobs[o].priority /\ j <= o)

Dispatch(j) ==
  /\ jobs[j].state \in {"waiting", "delayed"}
  /\ FreeProcessor(jobs[j].lane)
  /\ TakenNext(j)
  /\ jobs' = [jobs EXCEPT ![j].state = "active", ![j].hpc = "analyze",
                          ![j].result = "none"]
  /\ UNCHANGED <<instances, alerts, storeVars, otherThanQueue>>

(***************************************************************************)
(* The handlers, one action per await.                                     *)
(***************************************************************************)
\* Where the handler goes once its result is known: processEmergencyUpdate
\* sends its alert first, the other two return.
AfterResult(job) == IF job.lane = "emergency-updates" THEN "alert" ELSE "return"

\* The handler's result is known; its local `trends` is out of scope.
Resulted(job, result) ==
  [job EXCEPT !.hpc = AfterResult(job), !.result = result, !.score = 0]

\* await trendAnalyzer.analyzeTechnology(technology): it rethrows what its
\* sources throw; the handler's catch turns that into success: false.
\* processTrendAnalysis ends here.
HandlerAnalyze(j) ==
  /\ jobs[j].state = "active" /\ jobs[j].hpc = "analyze"
  /\ \E ok \in IoOutcomes, score \in Scores :
       /\ Io(ok)
       /\ jobs' = [jobs EXCEPT ![j] =
                     IF ~ok THEN [Resulted(jobs[j], "failure")
                                    EXCEPT !.failedAt = "analyze"]
                     ELSE IF jobs[j].lane = "trend-analysis"
                          THEN Resulted(jobs[j], "success")
                          ELSE [jobs[j] EXCEPT !.hpc = "generate",
                                               !.score = score]]
  /\ UNCHANGED <<instances, alerts, ruleFile, archiveDir, historyFile,
                 deploymentFile, clock, hist0, runs, otherThanQueue>>

\* A handler that would return "no significant changes" for a score under the
\* minimum, whatever the lane, before generating anything.
HandlerGenerateSkipping(j) ==
  /\ jobs[j].state = "active" /\ jobs[j].hpc = "generate"
  /\ IF jobs[j].score < MinimumScore
     THEN /\ jobs' = [jobs EXCEPT ![j] = Resulted(jobs[j], "success")]
          /\ UNCHANGED runs
     ELSE /\ jobs' = [jobs EXCEPT ![j].hpc = "store"]
          /\ BeginRun(j, ArchiveThenDeploy(RuleTypeOf(jobs[j].technology),
                                           ContentOf(j), CurrentVersion))
  /\ UNCHANGED <<instances, alerts, ruleFile, archiveDir, historyFile,
                 deploymentFile, clock, faults, hist0, otherThanQueue>>

\* await ruleGenerator.generateRules(...), then the version string and the
\* call of archiveCurrentRule.  trends.updatePriority is not consulted.
HandlerGenerate(j) ==
  /\ jobs[j].state = "active" /\ jobs[j].hpc = "generate"
  /\ \E ok \in IoOutcomes :
       /\ Io(ok)
       /\ IF ok
          THEN /\ jobs' = [jobs EXCEPT ![j].hpc = "store"]
               /\ BeginRun(j, ArchiveThenDeploy(RuleTypeOf(jobs[j].technology),
                                                ContentOf(j), CurrentVersion))
          ELSE /\ jobs' = [jobs EXCEPT ![j] =
                              [Resulted(jobs[j], "failure")
                                 EXCEPT !.failedAt = "generate"]]
               /\ UNCHANGED runs
  /\ UNCHANGED <<instances, alerts, ruleFile, archiveDir, historyFile,
                 deploymentFile, clock, hist0, otherThanQueue>>

\* deployNewRule has returned: await ruleGenerator.cleanup(), then
\* return { success: true, ... }.
HandlerCleanup(j) ==
  /\ jobs[j].state = "active" /\ jobs[j].hpc = "store"
  /\ runs[j].pc = "done"
  /\ \E ok \in IoOutcomes :
       /\ Io(ok)
       /\ jobs' = [jobs EXCEPT ![j] =
                     Resulted(jobs[j], IF ok THEN "success" ELSE "failure")]
  /\ UNCHANGED <<instances, alerts, ruleFile, archiveDir, historyFile,
                 deploymentFile, clock, hist0, runs, otherThanQueue>>

\* archiveCurrentRule or deployNewRule threw: catch, return { success: false }.
HandlerCatch(j) ==
  /\ jobs[j].state = "active" /\ jobs[j].hpc = "store"
  /\ runs[j].pc = "failed"
  /\ jobs' = [jobs EXCEPT ![j] = Resulted(jobs[j], "failure")]
  /\ UNCHANGED <<instances, alerts, storeVars, otherThanQueue>>

\* processEmergencyUpdate: new NotificationService().sendAlert(...), whatever
\* the result was; a failure to send is logged and swallowed.
EmergencyAlert(job, j) ==
  [job |-> j, task |-> "none", nth |-> 0,
   type |-> "emergency-update-completed", severity |-> "high",
   technology |-> job.technology,
   successful |-> IF job.result = "success" THEN 1 ELSE 0,
   failed |-> IF job.result = "success" THEN 0 ELSE 1,
   channels |-> {"emergency-alerts", "general"}]

HandlerAlert(j) ==
  /\ jobs[j].state = "active" /\ jobs[j].hpc = "alert"
  /\ \E ok \in IoOutcomes :
       /\ Io(ok)
       /\ alerts' = IF ok THEN alerts \cup {EmergencyAlert(jobs[j], j)} ELSE alerts
  /\ jobs' = [jobs EXCEPT ![j].hpc = "return"]
  /\ UNCHANGED <<instances, ruleFile, archiveDir, historyFile,
                 deploymentFile, clock, hist0, runs, otherThanQueue>>

\* A handler that would let what its body throws reject its promise.
HandlerRejectsOnFailure(job) == job.result = "failure"

\* Whether the promise the handler returned rejects.  All three handlers wrap
\* their whole body in try/catch and return a JobResult from the catch.
HandlerRejects(job) == FALSE

\* Bull settles the job: completed when the handler resolved (whatever the
\* JobResult says); when it rejected, attemptsMade goes up and the job is
\* delayed for a retry, or failed once attempts are used up.  The 'completed'
\* and 'failed' listeners only log.
Settle(j) ==
  /\ jobs[j].state = "active" /\ jobs[j].hpc = "return"
  /\ jobs' = [jobs EXCEPT ![j] =
       IF ~HandlerRejects(jobs[j])
       THEN [jobs[j] EXCEPT !.state = "completed", !.hpc = "none"]
       ELSE [jobs[j] EXCEPT
               !.attemptsMade = jobs[j].attemptsMade + 1,
               !.hpc = "none",
               !.state = IF jobs[j].attemptsMade + 1 < jobs[j].attempts
                         THEN "delayed" ELSE "failed"]]
  /\ UNCHANGED <<instances, alerts, storeVars, otherThanQueue>>

(***************************************************************************)
(* The queue with its handlers' archive-then-deploy runs.                  *)
(***************************************************************************)
QueueInit ==
  /\ ruleFile = [t \in RuleTypes |-> IF t = RuleTypeOf("python")
                                      THEN InitialContent ELSE NoFile]
  /\ historyFile = [t \in RuleTypes |-> <<>>]
  /\ hist0 = [t \in RuleTypes |-> 0]
  /\ archiveDir = {}
  /\ deploymentFile = [t \in RuleTypes |-> NoDeployment]
  /\ clock = 1
  /\ faults = 0
  /\ runs = [r \in RunIds |-> IdleRun]
  /\ QueueIdle
  /\ SchedIdle
  /\ TrendIdle
  /\ OpsIdle
  /\ ScoreIdle
  /\ SweepIdle
  /\ HubIdle
  /\ GenIdle
  /\ ApiIdle
  /\ McpIdle
  /\ LogIdle
  /\ ConfigIdle

\* The steps of the store a handler's run can take.
HandlerStoreStep(j) ==
  \/ ArchiveStat(j) \/ ArchiveRead(j) \/ ArchiveWrite(j)
  \/ HistLoad(j) \/ HistSave(j)
  \/ DeployWrite(j) \/ DepCount(j) \/ DepSave(j)

QueueNext ==
  \/ SchedulerStart
  \/ broadcastSystemStatus
  \/ \E j \in Jobs :
       \/ addRuleGenerationJob(j)
       \/ addTrendAnalysisJob(j)
       \/ addEmergencyUpdateJob(j)
       \/ Dispatch(j)
       \/ HandlerAnalyze(j)
       \/ HandlerGenerate(j)
       \/ HandlerStoreStep(j)
       \/ HandlerCleanup(j)
       \/ HandlerCatch(j)
       \/ HandlerAlert(j)
       \/ Settle(j)

SpecQueue == QueueInit /\ [][QueueNext]_vars

(***************************************************************************)
(* SchedulerService: the callback scheduleTask hands to cron.schedule.     *)
(* node-cron calls it at every matching minute and on task.now(), whether  *)
(* or not an earlier call of it has returned.                              *)
(***************************************************************************)
\* The handlers that rethrow what goes wrong in them; system-health-check
\* catches everything itself.
RethrowingTasks == {"daily-trend-analysis", "monthly-comprehensive-update"}

\* The tasks whose failure is reported with sendAlert.
CriticalTasks == {"monthly-comprehensive-update", "security-advisory-check"}

TaskFailureAlert(name, nth) ==
  [job |-> 0, task |-> name, nth |-> nth,
   type |-> "scheduled-task-failure", severity |-> "high",
   technology |-> "none", successful |-> 0, failed |-> 0,
   channels |-> {"emergency-alerts", "general"}]

\* A callback without the check of `enabled`.
CallbackStartUnchecked(name) ==
  /\ tasks[name].runCount < MaxFirings
  /\ tasks' = [tasks EXCEPT ![name].lastRun = clock,
                            ![name].runCount = tasks[name].runCount + 1,
                            ![name].running = tasks[name].running + 1]
  /\ clock' = clock + 1
  /\ UNCHANGED <<ruleFile, archiveDir, historyFile, deploymentFile, faults,
                 hist0, runs, queueVars, trendVars, opsVars,
                 scoreVars, sweepVars, hubVars, genVars, apiVars, mcpVars, logVars, configVars>>

\* The callback up to `await taskFunction()`: a disabled task logs that it is
\* skipped and returns at once; an enabled one records the run and starts
\* its handler.
Callback(name) ==
  IF tasks[name].enabled
  THEN /\ tasks[name].runCount < MaxFirings
       /\ tasks' = [tasks EXCEPT ![name].lastRun = clock,
                                 ![name].runCount = tasks[name].runCount + 1,
                                 ![name].running = tasks[name].running + 1]
       /\ clock' = clock + 1
  ELSE /\ tasks[name].skipped < MaxSkips
       /\ tasks' = [tasks EXCEPT ![name].skipped = tasks[name].skipped + 1]
       /\ UNCHANGED clock

CallbackStart(name) ==
  /\ Callback(name)
  /\ UNCHANGED <<ruleFile, archiveDir, historyFile, deploymentFile, faults,
                 hist0, runs, queueVars, trendVars, opsVars,
                 scoreVars, sweepVars, hubVars, genVars, apiVars, mcpVars, logVars, configVars>>

\* The schedule matches the current minute.
CronTick(name) == CallbackStart(name)

\* triggerTask(taskName): task.task.now().
triggerTask(name) == CallbackStart(name)

\* A callback that would count an error whenever its handler is over.
ErrorCountAfterAnyEnd(task, ok) == task.errorCount + 1

\* scheduledTask.errorCount++ in the catch of the callback, and nowhere else.
ErrorCountAfter(task, ok) == task.errorCount + (IF ok THEN 0 ELSE 1)

\* taskFunction() settles: the rest of the callback.
CallbackEnd(name) ==
  /\ tasks[name].running > 0
  /\ \E ok \in BOOLEAN :
       /\ ~ok => name \in RethrowingTasks
       /\ tasks' = [tasks EXCEPT
                      ![name].running = tasks[name].running - 1,
                      ![name].errorCount = ErrorCountAfter(tasks[name], ok)]
       /\ alerts' = IF ~ok /\ name \in CriticalTasks
                    THEN alerts \cup
                           {TaskFailureAlert(name, tasks[name].errorCount + 1)}
                    ELSE alerts
  /\ UNCHANGED <<storeVars, instances, jobs, trendVars, opsVars,
                 scoreVars, sweepVars, hubVars, genVars, apiVars, mcpVars, logVars, configVars>>

\* A disableTask that would unregister the task's callback for good.
SetEnabledResetting(registry, taskName, flag) ==
  IF taskName \in DOMAIN registry
  THEN [registry EXCEPT ![taskName] = [NewTask EXCEPT !.enabled = flag]]
  ELSE registry

\* const task = this.scheduledTasks.get(taskName); if (!task) return false;
\* task.enabled = flag.
SetEnabled(registry, taskName, flag) ==
  IF taskName \in DOMAIN registry
  THEN [registry EXCEPT ![taskName].enabled = flag]
  ELSE registry

enableTask(name) ==
  /\ tasks' = SetEnabled(tasks, name, TRUE)
  /\ UNCHANGED <<storeVars, queueVars, trendVars, opsVars,
                 scoreVars, sweepVars, hubVars, genVars, apiVars, mcpVars, logVars, configVars>>

disableTask(name) ==
  /\ tasks' = SetEnabled(tasks, name, FALSE)
  /\ UNCHANGED <<storeVars, queueVars, trendVars, opsVars,
                 scoreVars, sweepVars, hubVars, genVars, apiVars, mcpVars, logVars, configVars>>

\* The scheduler after start(): its QueueService constructed, its tasks
\* registered.
SchedInit ==
  /\ ruleFile = [t \in RuleTypes |-> NoFile]
  /\ historyFile = [t \in RuleTypes |-> <<>>]
  /\ hist0 = [t \in RuleTypes |-> 0]
  /\ archiveDir = {}
  /\ deploymentFile = [t \in RuleTypes |-> NoDeployment]
  /\ clock = 1
  /\ faults = 0
  /\ runs = [r \in RunIds |-> IdleRun]
  /\ instances = 1
  /\ jobs = [j \in Jobs |-> NoJob]
  /\ alerts = {}
  /\ SchedIdle
  /\ TrendIdle
  /\ OpsIdle
  /\ ScoreIdle
  /\ SweepIdle
  /\ HubIdle
  /\ GenIdle
  /\ ApiIdle
  /\ McpIdle
  /\ LogIdle
  /\ ConfigIdle

SchedNext ==
  \E name \in TaskNames :
    \/ CronTick(name)
    \/ triggerTask(name)
    \/ CallbackEnd(name)
    \/ enableTask(name)
    \/ disableTask(name)

SpecSched == SchedInit /\ [][SchedNext]_vars

(***************************************************************************)
(* TrendAnalyzer.calculateUpdatePriority.  The weights 0.3, 0.2, 0.3, 0.2  *)
(* are kept in tenths, so `priority` below is in tenths of a score unit    *)
(* and `factors` in tenths; their quotient is the score, rounded down to   *)
(* the ten-thousandth.                                                     *)
(***************************************************************************)
\* What the four source analyses can hand over.  totalRepos and
\* totalQuestions are 0 when the source failed or found nothing
\* (getDefaultGitHubTrends, getDefaultStackOverflowTrends).
TrendInputs ==
  [totalRepos : {0, 2500, 5000, 10000, 25000},
   totalQuestions : {0, 250, 500, 1000, 4000},
   weeklyGrowth : {0 - 5, 0, 7, 10, 14, 20, 30},
   breakingChanges : {0, 1}]

NotScored == 0 - 1

Max(a, b) == IF a > b THEN a ELSE b

\* The function without Math.max(0, ...) around the growth factor.
calculateUpdatePriorityUnfloored(t) ==
  LET repoActivity == Min((t.totalRepos * ScoreUnit) \div RepoCeiling, ScoreUnit)
      soActivity == Min((t.totalQuestions * ScoreUnit) \div QuestionCeiling,
                        ScoreUnit)
      growthFactor == Min((t.weeklyGrowth * ScoreUnit) \div GrowthCeiling, ScoreUnit)
      breakingChangesFactor ==
        IF t.breakingChanges > 0 THEN ScoreUnit ELSE (ScoreUnit * 2) \div 10
      priority == (IF t.totalRepos > 0 THEN repoActivity * 3 ELSE 0)
                  + (IF t.totalQuestions > 0 THEN soActivity * 2 ELSE 0)
                  + growthFactor * 3 + breakingChangesFactor * 2
      factors == (IF t.totalRepos > 0 THEN 3 ELSE 0)
                 + (IF t.totalQuestions > 0 THEN 2 ELSE 0) + 3 + 2
  IN IF factors > 0 THEN Min(priority \div factors, ScoreUnit) ELSE NeutralScore

calculateUpdatePriority(t) ==
  LET repoActivity == Min((t.totalRepos * ScoreUnit) \div RepoCeiling, ScoreUnit)
      soActivity == Min((t.totalQuestions * ScoreUnit) \div QuestionCeiling,
                        ScoreUnit)
      growthFactor ==
        Max(0, Min((t.weeklyGrowth * ScoreUnit) \div GrowthCeiling, ScoreUnit))
      breakingChangesFactor ==
        IF t.breakingChanges > 0 THEN ScoreUnit ELSE (ScoreUnit * 2) \div 10
      priority == (IF t.totalRepos > 0 THEN repoActivity * 3 ELSE 0)
                  + (IF t.totalQuestions > 0 THEN soActivity * 2 ELSE 0)
                  + growthFactor * 3 + breakingChangesFactor * 2
      factors == (IF t.totalRepos > 0 THEN 3 ELSE 0)
                 + (IF t.totalQuestions > 0 THEN 2 ELSE 0) + 3 + 2
  IN IF factors > 0 THEN Min(priority \div factors, ScoreUnit) ELSE NeutralScore

\* analyzeTechnology, after Promise.all: const updatePriority =
\* this.calculateUpdatePriority({...}).
CalculatePriority ==
  /\ updatePriority = NotScored
  /\ updatePriority' = calculateUpdatePriority(trends)
  /\ UNCHANGED <<trends, otherThanScore>>

\* The next analysis brings other figures.
NextAnalysis ==
  /\ updatePriority # NotScored
  /\ \E t \in TrendInputs : trends' = t
  /\ updatePriority' = NotScored
  /\ UNCHANGED otherThanScore

ScoreInit ==
  /\ ruleFile = [t \in RuleTypes |-> NoFile]
  /\ historyFile = [t \in RuleTypes |-> <<>>]
  /\ hist0 = [t \in RuleTypes |-> 0]
  /\ archiveDir = {}
  /\ deploymentFile = [t \in RuleTypes |-> NoDeployment]
  /\ clock = 1
  /\ faults = 0
  /\ runs = [r \in RunIds |-> IdleRun]
  /\ QueueIdle
  /\ SchedIdle
  /\ TrendIdle
  /\ OpsIdle
  /\ trends \in TrendInputs
  /\ updatePriority = NotScored
  /\ SweepIdle
  /\ HubIdle
  /\ GenIdle
  /\ ApiIdle
  /\ McpIdle
  /\ LogIdle
  /\ ConfigIdle

ScoreNext == CalculatePriority \/ NextAnalysis

SpecScore == ScoreInit /\ [][ScoreNext]_vars

(***************************************************************************)
(* TrendAnalyzer.analyzeTechnology and its cache.                          *)
(***************************************************************************)
\* The comparison with the entry still served at the age of cacheDuration.
CacheHitInclusive(cached, time) ==
  cached.present /\ time - cached.timestamp <= CacheDuration

\* cached && Date.now() - cached.timestamp < this.cacheDuration
CacheHit(cached, time) ==
  cached.present /\ time - cached.timestamp < CacheDuration

\* trendData of the n-th round of fetches for a technology.
TrendDataOf(round) == round

\* The call up to its first await: the cached data at once, or the four
\* source analyses started with Promise.all.
analyzeTechnology(c, technology) ==
  /\ callers[c].pc = "idle"
  /\ \A o \in CallerIds : o < c => callers[o].pc # "idle"
  /\ IF CacheHit(trendCache[technology], dateNow)
     THEN /\ callers' = [callers EXCEPT ![c] =
                           [pc |-> "returned", technology |-> technology,
                            round |-> 0,
                            result |-> trendCache[technology].data]]
          /\ UNCHANGED fetches
     ELSE /\ callers' = [callers EXCEPT ![c] =
                           [pc |-> "fetching", technology |-> technology,
                            round |-> fetches[technology] + 1,
                            result |-> 0]]
          /\ fetches' = [fetches EXCEPT ![technology] = fetches[technology] + 1]
  /\ invalidated' = invalidated \ {technology}
  /\ UNCHANGED <<trendCache, dateNow, storeVars, otherThanTrend>>

\* Promise.all has settled: the entry is set to the new data and the current
\* time and the data returned; or the error is logged and rethrown.
AnalysisSettled(c) ==
  /\ callers[c].pc = "fetching"
  /\ \E ok \in IoOutcomes :
       /\ Io(ok)
       /\ IF ok
          THEN /\ trendCache' =
                    [trendCache EXCEPT ![callers[c].technology] =
                       [present |-> TRUE,
                        data |-> TrendDataOf(callers[c].round),
                        timestamp |-> dateNow]]
               /\ callers' = [callers EXCEPT
                                ![c].pc = "returned",
                                ![c].result = TrendDataOf(callers[c].round)]
          ELSE /\ callers' = [callers EXCEPT ![c].pc = "threw"]
               /\ UNCHANGED trendCache
  /\ UNCHANGED <<dateNow, fetches, invalidated, ruleFile, archiveDir, historyFile,
                 deploymentFile, clock, hist0, runs, otherThanTrend>>

\* An hour passes.
HourPasses ==
  /\ dateNow < MaxHours * Hour
  /\ dateNow' = dateNow + Hour
  /\ UNCHANGED <<trendCache, callers, fetches, invalidated, storeVars,
                 otherThanTrend>>

\* clearCache(): this.trendCache.clear().
clearCache ==
  /\ trendCache' = [t \in Technologies |-> NoEntry]
  /\ invalidated' = Technologies
  /\ UNCHANGED <<callers, dateNow, fetches, storeVars, otherThanTrend>>

TrendInit ==
  /\ ruleFile = [t \in RuleTypes |-> NoFile]
  /\ historyFile = [t \in RuleTypes |-> <<>>]
  /\ hist0 = [t \in RuleTypes |-> 0]
  /\ archiveDir = {}
  /\ deploymentFile = [t \in RuleTypes |-> NoDeployment]
  /\ clock = 1
  /\ faults = 0
  /\ runs = [r \in RunIds |-> IdleRun]
  /\ QueueIdle
  /\ SchedIdle
  /\ TrendIdle
  /\ OpsIdle
  /\ ScoreIdle
  /\ SweepIdle
  /\ HubIdle
  /\ GenIdle
  /\ ApiIdle
  /\ McpIdle
  /\ LogIdle
  /\ ConfigIdle

TrendNext ==
  \/ \E c \in CallerIds :
       \/ \E technology \in Technologies : analyzeTechnology(c, technology)
       \/ AnalysisSettled(c)
  \/ HourPasses
  \/ clearCache

SpecTrend == TrendInit /\ [][TrendNext]_vars

(***************************************************************************)
(* RuleVersionManager.cleanupOldArchives, called by the cache-cleanup task. *)
(***************************************************************************)
\* The cutoff dates tried: one that some archives are older than, one that
\* all are.
Cutoffs == {2, 9}

\* stats.mtime < cutoffDate; an archive file is written once, at the time in
\* its name.
OldArchives(dir, cutoff) == {f \in dir : f.name[Len(f.name)] < cutoff}

\* A cleanup that would unlink one old archive in every call.
CleanedArchivesOneAtATime(dir, cutoff) ==
  IF OldArchives(dir, cutoff) = {} THEN dir
  ELSE dir \ {CHOOSE f \in OldArchives(dir, cutoff) : TRUE}

\* The archive directory after the loop: an old file is logged as "Would
\* delete" and counted, and nothing is unlinked.
CleanedArchives(dir, cutoff) == dir

\* readdir, then stat of every .md file; an error of either is rethrown.
cleanupOldArchives(cutoff) ==
  /\ cleanup.calls < MaxCleanups
  /\ \E ok \in IoOutcomes :
       /\ Io(ok)
       /\ archiveDir' = IF ok THEN CleanedArchives(archiveDir, cutoff)
                        ELSE archiveDir
       /\ cleanup' = [calls |-> cleanup.calls + 1, cutoff |-> cutoff,
                      marked |-> IF ok
                                 THEN Cardinality(OldArchives(archiveDir, cutoff))
                                 ELSE 0]
  /\ UNCHANGED <<ruleFile, historyFile, deploymentFile, clock, hist0, runs,
                 queueVars, retry, otherThanOps>>

\* One rule type with a rule file, one without, nothing archived yet.
CleanupInit ==
  /\ ruleFile = [t \in RuleTypes |-> IF t = <<"python", "best", "practices">>
                                      THEN InitialContent ELSE NoFile]
  /\ historyFile = [t \in RuleTypes |-> <<>>]
  /\ hist0 = [t \in RuleTypes |-> 0]
  /\ archiveDir = {}
  /\ deploymentFile = [t \in RuleTypes |-> NoDeployment]
  /\ clock = 1
  /\ faults = 0
  /\ runs = [r \in RunIds |-> IdleRun]
  /\ QueueIdle
  /\ SchedIdle
  /\ TrendIdle
  /\ OpsIdle
  /\ ScoreIdle
  /\ SweepIdle
  /\ HubIdle
  /\ GenIdle
  /\ ApiIdle
  /\ McpIdle
  /\ LogIdle
  /\ ConfigIdle

CleanupNext ==
  \/ \E cutoff \in Cutoffs : cleanupOldArchives(cutoff)
  \/ \E r \in RunIds :
       \/ handleUpdateRuleFile(r)
       \/ rollbackToVersion(r)
       \/ StoreStep(r)

SpecCleanup == CleanupInit /\ [][CleanupNext]_vars

(***************************************************************************)
(* QueueService.retryFailedJobs.  Handlers never reject, so the failed     *)
(* jobs there are to retry are those Bull itself fails: the jobs of a      *)
(* worker that stalled beyond the allowed limit.  job.retry() puts a       *)
(* failed job back to wait and leaves its attemptsMade as it is; it throws *)
(* for a job that is not failed.                                           *)
(***************************************************************************)
\* Bull gives up on an active job whose worker no longer renews its lock.
JobStalled(j) ==
  /\ jobs[j].state = "active"
  /\ jobs' = [jobs EXCEPT ![j].state = "failed", ![j].hpc = "none",
                          ![j].score = 0]
  /\ UNCHANGED <<instances, alerts, storeVars, retry, cleanup, otherThanOps>>

\* queue.getFailed(): the failed jobs of the lane, oldest first.
FailedIn(lane) ==
  SelectSeq([j \in 1..MaxRuns |-> j],
            LAMBDA j : jobs[j].state = "failed" /\ jobs[j].lane = lane)

\* A retry that would count as one more attempt.
RetriedCountingAttempt(job) ==
  [job EXCEPT !.state = "waiting", !.result = "none", !.failedAt = "none",
              !.attemptsMade = job.attemptsMade + 1]

\* The job after job.retry().
Retried(job) ==
  [job EXCEPT !.state = "waiting", !.result = "none", !.failedAt = "none"]

\* const failedJobs = await queue.getFailed(); with none, return 0.
retryFailedJobs(lane) ==
  /\ instances >= 1
  /\ retry.pc # "looping"
  /\ retry.calls < MaxRetryCalls
  /\ retry' = [pc |-> IF FailedIn(lane) = <<>> THEN "returned" ELSE "looping",
               lane |-> lane, failedJobs |-> FailedIn(lane),
               todo |-> FailedIn(lane), retriedCount |-> 0,
               calls |-> retry.calls + 1]
  /\ UNCHANGED <<queueVars, storeVars, cleanup, otherThanOps>>

\* await job.retry(); retriedCount++ for the next job of the list; after the
\* last one, return retriedCount.
RetryJob ==
  /\ retry.pc = "looping"
  /\ LET j == Head(retry.todo)
     IN IF jobs[j].state = "failed"
        THEN /\ jobs' = [jobs EXCEPT ![j] = Retried(jobs[j])]
             /\ retry' = [retry EXCEPT
                            !.todo = Tail(retry.todo),
                            !.retriedCount = retry.retriedCount + 1,
                            !.pc = IF Tail(retry.todo) = <<>>
                                   THEN "returned" ELSE "looping"]
        ELSE /\ retry' = [retry EXCEPT !.pc = "threw"]
             /\ UNCHANGED jobs
  /\ UNCHANGED <<instances, alerts, storeVars, cleanup, otherThanOps>>

\* One QueueService constructed, as after SchedulerService.start().
RetryInit ==
  /\ ruleFile = [t \in RuleTypes |-> NoFile]
  /\ historyFile = [t \in RuleTypes |-> <<>>]
  /\ hist0 = [t \in RuleTypes |-> 0]
  /\ archiveDir = {}
  /\ deploymentFile = [t \in RuleTypes |-> NoDeployment]
  /\ clock = 1
  /\ faults = 0
  /\ runs = [r \in RunIds |-> IdleRun]
  /\ instances = 1
  /\ jobs = [j \in Jobs |-> NoJob]
  /\ alerts = {}
  /\ SchedIdle
  /\ TrendIdle
  /\ OpsIdle
  /\ ScoreIdle
  /\ SweepIdle
  /\ HubIdle
  /\ GenIdle
  /\ ApiIdle
  /\ McpIdle
  /\ LogIdle
  /\ ConfigIdle

\* The queues with workers that stall: the handlers as far as their analysis
\* (a generation is the long call during which a worker stalls), Bull failing
\* the stalled jobs, and the operator retrying them.
RetryNext ==
  \/ \E lane \in Lanes : retryFailedJobs(lane)
  \/ RetryJob
  \/ \E j \in Jobs :
       \/ addRuleGenerationJob(j)
       \/ addTrendAnalysisJob(j)
       \/ addEmergencyUpdateJob(j)
       \/ Dispatch(j)
       \/ JobStalled(j)
       \/ HandlerAnalyze(j)
       \/ HandlerAlert(j)
       \/ Settle(j)

SpecRetry == RetryInit /\ [][RetryNext]_vars

(***************************************************************************)
(* The handlers setupScheduledTasks registers for the three sweeps, cut at *)
(* their awaits.  queue.add rejects when Redis cannot be reached.          *)
(***************************************************************************)
\* What analyzeTechnology can resolve to for one technology in a sweep:
\* figures whose score is over 0.7, exactly 0.7 and under it.
SweepTrends ==
  {[totalRepos |-> 10000, totalQuestions |-> 1000, weeklyGrowth |-> 14,
    breakingChanges |-> 0],
   [totalRepos |-> 10000, totalQuestions |-> 900, weeklyGrowth |-> 12,
    breakingChanges |-> 0],
   [totalRepos |-> 2500, totalQuestions |-> 250, weeklyGrowth |-> 0,
    breakingChanges |-> 0]}

RECURSIVE SelectSeq2(_, _)
SelectSeq2(seq, keep) ==
  IF seq = <<>> THEN <<>>
  ELSE IF Head(seq) \in keep THEN <<Head(seq)>> \o SelectSeq2(Tail(seq), keep)
  ELSE SelectSeq2(Tail(seq), keep)

\* queue.add(jobData, {priority}) has resolved: the job is in the queue.
Enqueued(lane, technology, priority) ==
  \E j \in Jobs :
    /\ NextJob(j)
    /\ jobs' = [jobs EXCEPT ![j] = Added(lane, technology, priority)]

\* One handler is followed from its start to its end.
NoSweepYet == sweep.pc = "idle"

\* monthly-comprehensive-update: let successful = 0; let failed = 0; and the
\* for loop entered.
MonthlyStart ==
  /\ NoSweepYet
  /\ sweep' = [IdleSweep EXCEPT !.task = "monthly-comprehensive-update",
                                !.pc = "loop", !.todo = SupportedTechnologies]
  /\ UNCHANGED <<queueVars, otherThanSweep>>

\* The catch inside the loop, which ends the handler instead of counting.
AfterFailedMonthlyAddStopping(s) == [s EXCEPT !.pc = "threw"]

\* catch (error) { logger.error(...); failed++; } and on to the next.
AfterFailedMonthlyAdd(s) ==
  [s EXCEPT !.failed = s.failed + 1, !.todo = Tail(s.todo)]

\* One turn of the loop: await addRuleGenerationJob({technology,
\* priority: 'medium', ...}); successful++.
MonthlyAdd ==
  /\ sweep.task = "monthly-comprehensive-update"
  /\ sweep.pc = "loop"
  /\ sweep.todo # <<>>
  /\ \E ok \in IoOutcomes :
       LET technology == Head(sweep.todo)
           tried == [sweep EXCEPT !.attempts =
                       Append(sweep.attempts, [technology |-> technology, ok |-> ok])]
       IN IF ok
          THEN /\ Enqueued("rule-generation", technology,
                           getPriorityNumber("medium"))
               /\ sweep' = [tried EXCEPT !.successful = sweep.successful + 1,
                                         !.todo = Tail(sweep.todo)]
          ELSE /\ sweep' = AfterFailedMonthlyAdd(tried)
               /\ UNCHANGED jobs
  /\ UNCHANGED <<instances, alerts, otherThanSweep>>

\* After the loop: sendSummary({successful, failed, totalProcessed, ...}).
MonthlyEnd ==
  /\ sweep.task = "monthly-comprehensive-update"
  /\ sweep.pc = "loop"
  /\ sweep.todo = <<>>
  /\ sweep' = [sweep EXCEPT !.pc = "done", !.summary = "sent"]
  /\ UNCHANGED <<queueVars, otherThanSweep>>

\* Object.entries(allTrends).filter(([, trends]) => trends.updatePriority >
\* 0.7).map(([tech]) => tech)
HighPriority(allTrends) ==
  {technology \in Technologies :
     /\ allTrends[technology] # NoTrends
     /\ calculateUpdatePriority(allTrends[technology]) > PriorityThreshold}

\* weekly-rule-check up to its loop: analyzeAllTechnologies has resolved to
\* the trends of the technologies whose analysis did not throw.
WeeklyAnalyze ==
  /\ NoSweepYet
  /\ \E allTrends \in [Technologies -> SweepTrends \cup {NoTrends}] :
          sweep' = [IdleSweep EXCEPT
                      !.task = "weekly-rule-check", !.pc = "loop",
                      !.allTrends = allTrends,
                      !.todo = SelectSeq2(SupportedTechnologies,
                                          HighPriority(allTrends))]
  /\ UNCHANGED <<queueVars, otherThanSweep>>

\* One turn of the loop: await addRuleGenerationJob({technology,
\* priority: 'high', ...}).  A rejection leaves the loop for the handler's
\* catch, which logs and rethrows.
WeeklyAdd ==
  /\ sweep.task = "weekly-rule-check"
  /\ sweep.pc = "loop"
  /\ sweep.todo # <<>>
  /\ \E ok \in IoOutcomes :
       LET technology == Head(sweep.todo)
           tried == [sweep EXCEPT !.attempts =
                       Append(sweep.attempts, [technology |-> technology, ok |-> ok])]
       IN IF ok
          THEN /\ Enqueued("rule-generation", technology,
                           getPriorityNumber("high"))
               /\ sweep' = [tried EXCEPT !.todo = Tail(sweep.todo)]
          ELSE /\ sweep' = [tried EXCEPT !.pc = "threw"]
               /\ UNCHANGED jobs
  /\ UNCHANGED <<instances, alerts, otherThanSweep>>

\* After the loop: sendSummary and the closing log line.
WeeklyEnd ==
  /\ sweep.task = "weekly-rule-check"
  /\ sweep.pc = "loop"
  /\ sweep.todo = <<>>
  /\ sweep' = [sweep EXCEPT !.pc = "done", !.summary = "sent"]
  /\ UNCHANGED <<queueVars, otherThanSweep>>

\* What the repository search can answer for one technology: how many of
\* the repositories found carry the topic or the name 'security'.
SecurityRepos == {0, 1, 2}

\* checkSecurityAdvisories: one advisory per security repository found, each
\* pushed with severity: 'medium' as const; [] when the request failed or no
\* token is configured.
checkSecurityAdvisories(found, ok) ==
  IF ok THEN [i \in 1..found |-> [id |-> i, severity |-> "medium"]] ELSE <<>>

\* advisories.filter(a => a.severity === 'critical' || a.severity === 'high')
CriticalAdvisories(advisories) ==
  SelectSeq(advisories, LAMBDA a : a.severity \in {"critical", "high"})

\* security-advisory-check: const emergencyUpdates = []; and the loop
\* entered.  flagged: the technologies for which the search will find a
\* repository that reports a critical vulnerability.
SecurityStart ==
  /\ NoSweepYet
  /\ \E flagged \in SUBSET Technologies :
       sweep' = [IdleSweep EXCEPT !.task = "security-advisory-check",
                                 !.pc = "loop", !.todo = SupportedTechnologies,
                                 !.flagged = flagged]
  /\ UNCHANGED <<queueVars, otherThanSweep>>

\* One turn of the loop: await checkSecurityAdvisories(technology), the
\* filter, and for a non-empty filter result await addEmergencyUpdateJob
\* and emergencyUpdates.push(technology); whatever throws inside is caught
\* and logged inside the loop.  attempts holds the checks made and whether
\* the search answered, successful is emergencyUpdates.length.
SecurityCheck ==
  /\ sweep.task = "security-advisory-check"
  /\ sweep.pc = "loop"
  /\ sweep.todo # <<>>
  /\ \E found \in SecurityRepos, fetched \in IoOutcomes, ok \in IoOutcomes :
       LET technology == Head(sweep.todo)
           advisories == checkSecurityAdvisories(found, fetched)
           checked == [sweep EXCEPT
                         !.attempts = Append(sweep.attempts,
                                             [technology |-> technology,
                                              ok |-> fetched]),
                         !.todo = Tail(sweep.todo)]
       IN /\ technology \in sweep.flagged => found > 0
          /\ IF CriticalAdvisories(advisories) # <<>> /\ ok
             THEN /\ Enqueued("emergency-updates", technology, 1)
                  /\ sweep' = [checked EXCEPT
                                 !.successful = sweep.successful + 1]
             ELSE /\ sweep' = checked
                  /\ UNCHANGED jobs
  /\ UNCHANGED <<instances, alerts, otherThanSweep>>

\* After the loop: sendAlert when emergencyUpdates.length > 0, and the
\* closing log line.
SecurityEnd ==
  /\ sweep.task = "security-advisory-check"
  /\ sweep.pc = "loop"
  /\ sweep.todo = <<>>
  /\ sweep' = [sweep EXCEPT !.pc = "done",
                            !.summary = IF sweep.successful > 0 THEN "sent"
                                        ELSE "none"]
  /\ UNCHANGED <<queueVars, otherThanSweep>>

\* The scheduler started (its QueueService constructed), no job queued.
SweepInit ==
  /\ ruleFile = [t \in RuleTypes |-> NoFile]
  /\ historyFile = [t \in RuleTypes |-> <<>>]
  /\ hist0 = [t \in RuleTypes |-> 0]
  /\ archiveDir = {}
  /\ deploymentFile = [t \in RuleTypes |-> NoDeployment]
  /\ clock = 1
  /\ faults = 0
  /\ runs = [r \in RunIds |-> IdleRun]
  /\ instances = 1
  /\ jobs = [j \in Jobs |-> NoJob]
  /\ alerts = {}
  /\ SchedIdle
  /\ TrendIdle
  /\ OpsIdle
  /\ ScoreIdle
  /\ SweepIdle
  /\ HubIdle
  /\ GenIdle
  /\ ApiIdle
  /\ McpIdle
  /\ LogIdle
  /\ ConfigIdle

SweepNext ==
  \/ MonthlyStart \/ MonthlyAdd \/ MonthlyEnd
  \/ WeeklyAnalyze \/ WeeklyAdd \/ WeeklyEnd
  \/ SecurityStart \/ SecurityCheck \/ SecurityEnd

SpecSweep == SweepInit /\ [][SweepNext]_vars

(***************************************************************************)
(* NotificationService: the clients map, the subscribe and unsubscribe     *)
(* messages and broadcast.  Every method below is synchronous, so each is  *)
(* one action; ws.send either returns or throws.                           *)
(***************************************************************************)
ValidChannels ==
  {"general", "rule-updates", "trend-analysis", "emergency-alerts",
   "system-status"}

\* The channel names client messages carry here; 'debug' is no channel.
MessageChannels == {"general", "rule-updates", "debug"}

Registered == {c \in ClientIds : clients[c].connected}

\* this.clients.delete(clientId)
Deleted(client) == [client EXCEPT !.connected = FALSE, !.subscriptions = {}]

\* sendToClient: nothing for a socket that is not OPEN; a send that throws
\* deletes the client.
SentToClient(client, ok) ==
  IF client.readyState # "OPEN" \/ ok THEN client ELSE Deleted(client)

\* A check that would let one client more in.
AtClientLimitOffByOne(registry, limit) ==
  Cardinality({c \in ClientIds : registry[c].connected}) > limit

\* this.clients.size >= config.security.maxWebSocketClients
AtClientLimit(registry, limit) ==
  Cardinality({c \in ClientIds : registry[c].connected}) >= limit

\* wss.on('connection'): the next clientId; refused at the client limit,
\* else registered with subscriptions {general} and sent the welcome.
connection(c) ==
  /\ clients[c].readyState = "NONE"
  /\ \A o \in ClientIds : o < c => clients[o].readyState # "NONE"
  /\ IF AtClientLimit(clients, maxWebSocketClients)
     THEN clients' = [clients EXCEPT ![c].readyState = "CLOSED"]
     ELSE \E ok \in IoOutcomes :
            clients' = [clients EXCEPT ![c] =
                          SentToClient([connected |-> TRUE,
                                        subscriptions |-> {"general"},
                                        readyState |-> "OPEN"], ok)]
  /\ UNCHANGED <<received, broadcasts, otherThanHub>>

\* handleSubscription: the valid names among data.channels are added.
handleSubscription(c, channels) ==
  /\ clients[c].connected
  /\ clients[c].readyState = "OPEN"
  /\ \E ok \in IoOutcomes :
       clients' = [clients EXCEPT ![c] =
                     SentToClient([clients[c] EXCEPT !.subscriptions =
                                     clients[c].subscriptions
                                       \cup (channels \cap ValidChannels)], ok)]
  /\ UNCHANGED <<received, broadcasts, otherThanHub>>

\* The deletions alone, without the re-adding of 'general'.
AfterUnsubscriptionMaybeNone(subscriptions, channels) == subscriptions \ channels

\* data.channels.forEach(channel => client.subscriptions.delete(channel));
\* if (client.subscriptions.size === 0) client.subscriptions.add('general')
AfterUnsubscription(subscriptions, channels) ==
  IF subscriptions \ channels = {} THEN {"general"} ELSE subscriptions \ channels

handleUnsubscription(c, channels) ==
  /\ clients[c].connected
  /\ clients[c].readyState = "OPEN"
  /\ \E ok \in IoOutcomes :
       clients' = [clients EXCEPT ![c] =
                     SentToClient([clients[c] EXCEPT !.subscriptions =
                                     AfterUnsubscription(clients[c].subscriptions,
                                                         channels)], ok)]
  /\ UNCHANGED <<received, broadcasts, otherThanHub>>

\* The peer goes away: the socket leaves OPEN before its 'close' event is
\* handled.
SocketCloses(c) ==
  /\ clients[c].connected
  /\ clients[c].readyState = "OPEN"
  /\ clients' = [clients EXCEPT ![c].readyState = "CLOSED"]
  /\ UNCHANGED <<received, broadcasts, otherThanHub>>

\* ws.on('close') and ws.on('error'): this.clients.delete(clientId).
OnClose(c) ==
  /\ clients[c].connected
  /\ clients[c].readyState = "CLOSED"
  /\ clients' = [clients EXCEPT ![c] = Deleted(clients[c])]
  /\ UNCHANGED <<received, broadcasts, otherThanHub>>

\* The keys of the clients map in insertion order: client ids are handed
\* out in increasing order and never reused.
MapOrder(registry) ==
  SelectSeq([i \in 1..MaxClients |-> i], LAMBDA c : registry[c].connected)

\* A loop that ends at the first send that throws.
AfterSendThrewStopping(rest) == <<>>

\* catch (error) { ...; this.clients.delete(clientId); } and the loop goes on.
AfterSendThrew(rest) == rest

\* for (const [clientId, client] of this.clients): the clients subscribed
\* to the channel with an OPEN socket are sent the message.
RECURSIVE BroadcastLoop(_, _, _, _)
BroadcastLoop(ids, registry, channel, threw) ==
  IF ids = <<>> THEN [registry |-> registry, sent |-> {}]
  ELSE LET c == Head(ids)
           client == registry[c]
       IN IF channel \in client.subscriptions /\ client.readyState = "OPEN"
          THEN IF c \in threw
               THEN BroadcastLoop(AfterSendThrew(Tail(ids)),
                                  [registry EXCEPT ![c] = Deleted(client)],
                                  channel, threw)
               ELSE LET rest == BroadcastLoop(Tail(ids), registry, channel, threw)
                    IN [registry |-> rest.registry, sent |-> rest.sent \cup {c}]
          ELSE BroadcastLoop(Tail(ids), registry, channel, threw)

\* broadcast(message, channel)
broadcast(registry, channel, threw) ==
  BroadcastLoop(MapOrder(registry), registry, channel, threw)

\* One notification method: its broadcasts one after the other.
RECURSIVE BroadcastAll(_, _, _)
BroadcastAll(channels, registry, threw) ==
  IF channels = <<>> THEN [registry |-> registry, got |-> {}]
  ELSE LET first == broadcast(registry, Head(channels), threw)
           rest == BroadcastAll(Tail(channels), first.registry, threw)
       IN [registry |-> rest.registry,
           got |-> rest.got \cup {<<c, Head(channels)>> : c \in first.sent}]

Published(channels) ==
  /\ broadcasts.calls < MaxBroadcasts
  /\ \E threw \in SUBSET {c \in Registered : clients[c].readyState = "OPEN"} :
       LET all == BroadcastAll(channels, clients, threw)
       IN /\ clients' = all.registry
          /\ received' = all.got
          /\ broadcasts' = [calls |-> broadcasts.calls + 1,
                            channels |-> channels, threw |-> threw]
  /\ UNCHANGED otherThanHub

\* sendAlert: on 'emergency-alerts', and on 'general' too for severity high
\* or critical.
sendAlert(severity) ==
  Published(IF severity \in {"high", "critical"}
            THEN <<"emergency-alerts", "general">>
            ELSE <<"emergency-alerts">>)

\* sendSummary: on 'general'.
sendSummary == Published(<<"general">>)

\* broadcastUpdate: on 'rule-updates', and on 'general' too for updateType
\* 'major'.
broadcastUpdate(updateType) ==
  Published(IF updateType = "major" THEN <<"rule-updates", "general">>
            ELSE <<"rule-updates">>)

\* The service started, nobody connected.
HubInit ==
  /\ ruleFile = [t \in RuleTypes |-> NoFile]
  /\ historyFile = [t \in RuleTypes |-> <<>>]
  /\ hist0 = [t \in RuleTypes |-> 0]
  /\ archiveDir = {}
  /\ deploymentFile = [t \in RuleTypes |-> NoDeployment]
  /\ clock = 1
  /\ faults = 0
  /\ runs = [r \in RunIds |-> IdleRun]
  /\ QueueIdle
  /\ SchedIdle
  /\ TrendIdle
  /\ OpsIdle
  /\ ScoreIdle
  /\ SweepIdle
  /\ HubIdle
  /\ GenIdle
  /\ ApiIdle
  /\ McpIdle
  /\ LogIdle
  /\ ConfigIdle

HubNext ==
  \/ \E c \in ClientIds :
       \/ connection(c)
       \/ \E channels \in SUBSET MessageChannels :
            \/ handleSubscription(c, channels)
            \/ handleUnsubscription(c, channels)
       \/ SocketCloses(c)
       \/ OnClose(c)
  \/ \E severity \in {"medium", "high"} : sendAlert(severity)
  \/ sendSummary
  \/ \E updateType \in {"major", "minor", "emergency"} : broadcastUpdate(updateType)

SpecHub == HubInit /\ [][HubNext]_vars

(***************************************************************************)
(* One rule-generation job with the searches of its generateRules call.    *)
(* conductResearch runs searchMultipleProviders for its categories at      *)
(* once; each walks its queries (one here) and, for each, the providers in *)
(* order.  A provider call returns results, or its deadline passes         *)
(* (AbortSignal.timeout, page.goto timeout), or it throws otherwise.       *)
(***************************************************************************)
SearchOutcomes == {"results", "timeout", "threw"}

\* A free processor takes the job: processRuleGeneration starts.
GenDispatch ==
  /\ generation.state = "waiting"
  /\ generation' = [generation EXCEPT !.state = "active", !.pc = "analyze"]
  /\ UNCHANGED otherThanGen

\* The handler's catch: return { success: false, ... }.
GenCaught(g) == [g EXCEPT !.pc = "return", !.result = "failure"]

\* await trendAnalyzer.analyzeTechnology(technology), then generateRules
\* enters conductResearch.
GenAnalyze ==
  /\ generation.state = "active" /\ generation.pc = "analyze"
  /\ \E ok \in IoOutcomes :
       generation' = IF ok
                     THEN [generation EXCEPT
                             !.pc = "research",
                             !.todo = [c \in Categories |-> SearchProviders]]
                     ELSE GenCaught(generation)
  /\ UNCHANGED otherThanGen

\* What a provider call that did not return results leaves of the search: a
\* provider's own catch returns [], the loop's catch logs a warning; the
\* next provider is asked either way.
AfterSearchFailed(g, category) ==
  [g EXCEPT !.todo[category] = Tail(g.todo[category])]

\* const results = await provider.search(query); allResults.push(...results).
ProviderSearch(category) ==
  /\ generation.state = "active" /\ generation.pc = "research"
  /\ generation.todo[category] # <<>>
  /\ LET provider == Head(generation.todo[category])
     IN \E outcome \in SearchOutcomes :
          generation' =
            CASE outcome = "results" ->
                   [generation EXCEPT
                      !.todo[category] = Tail(generation.todo[category]),
                      !.allResults[category] = @ \cup {provider}]
              [] outcome = "timeout" ->
                   AfterSearchFailed(
                     [generation EXCEPT
                        !.timedOut = @ \cup {<<category, provider>>}],
                     category)
              [] outcome = "threw" -> AfterSearchFailed(generation, category)
  /\ UNCHANGED otherThanGen

\* Promise.all has resolved: synthesizeRules builds the document from what
\* the searches returned, whatever that is; generateRules returns it.
synthesizeRules ==
  /\ generation.state = "active" /\ generation.pc = "research"
  /\ \A c \in Categories : generation.todo[c] = <<>>
  /\ generation' = [generation EXCEPT
                      !.pc = "archive", !.synthesized = TRUE,
                      !.rules = {cp \in Categories \X ProviderNames :
                                   cp[2] \in generation.allResults[cp[1]]}]
  /\ UNCHANGED otherThanGen

\* await versionManager.archiveCurrentRule(ruleType, version).
GenArchive ==
  /\ generation.state = "active" /\ generation.pc = "archive"
  /\ \E ok \in IoOutcomes :
       generation' = IF ok
                     THEN [generation EXCEPT !.pc = "deploy", !.archived = TRUE]
                     ELSE GenCaught(generation)
  /\ UNCHANGED otherThanGen

\* await versionManager.deployNewRule(ruleType, rules, version).
GenDeploy ==
  /\ generation.state = "active" /\ generation.pc = "deploy"
  /\ \E ok \in IoOutcomes :
       generation' = IF ok
                     THEN [generation EXCEPT !.pc = "cleanup", !.deployed = TRUE]
                     ELSE GenCaught(generation)
  /\ UNCHANGED otherThanGen

\* await ruleGenerator.cleanup(); return { success: true, ... }.
GenCleanup ==
  /\ generation.state = "active" /\ generation.pc = "cleanup"
  /\ \E ok \in IoOutcomes :
       generation' = IF ok
                     THEN [generation EXCEPT !.pc = "return", !.result = "success"]
                     ELSE GenCaught(generation)
  /\ UNCHANGED otherThanGen

\* Bull settles the job as Settle does.
GenSettle ==
  /\ generation.state = "active" /\ generation.pc = "return"
  /\ generation' = [generation EXCEPT
                      !.pc = "none",
                      !.state = IF HandlerRejects(generation)
                                THEN "delayed" ELSE "completed"]
  /\ UNCHANGED otherThanGen

GenInit ==
  /\ ruleFile = [t \in RuleTypes |-> NoFile]
  /\ historyFile = [t \in RuleTypes |-> <<>>]
  /\ hist0 = [t \in RuleTypes |-> 0]
  /\ archiveDir = {}
  /\ deploymentFile = [t \in RuleTypes |-> NoDeployment]
  /\ clock = 1
  /\ faults = 0
  /\ runs = [r \in RunIds |-> IdleRun]
  /\ QueueIdle
  /\ SchedIdle
  /\ TrendIdle
  /\ OpsIdle
  /\ ScoreIdle
  /\ SweepIdle
  /\ HubIdle
  /\ generation = NoGeneration
  /\ ApiIdle
  /\ McpIdle
  /\ LogIdle
  /\ ConfigIdle

GenNext ==
  \/ GenDispatch
  \/ GenAnalyze
  \/ \E category \in Categories : ProviderSearch(category)
  \/ synthesizeRules
  \/ GenArchive
  \/ GenDeploy
  \/ GenCleanup
  \/ GenSettle

SpecGen == GenInit /\ [][GenNext]_vars

(***************************************************************************)
(* The queues of one QueueService under fair scheduling: a processor that  *)
(* can take a job takes it, and every await of a handler returns.          *)
(***************************************************************************)
\* As QueueInit, after SchedulerService.start() constructed its QueueService.
LiveInit ==
  /\ ruleFile = [t \in RuleTypes |-> IF t = RuleTypeOf("python")
                                      THEN InitialContent ELSE NoFile]
  /\ historyFile = [t \in RuleTypes |-> <<>>]
  /\ hist0 = [t \in RuleTypes |-> 0]
  /\ archiveDir = {}
  /\ deploymentFile = [t \in RuleTypes |-> NoDeployment]
  /\ clock = 1
  /\ faults = 0
  /\ runs = [r \in RunIds |-> IdleRun]
  /\ instances = 1
  /\ jobs = [j \in Jobs |-> NoJob]
  /\ alerts = {}
  /\ SchedIdle
  /\ TrendIdle
  /\ OpsIdle
  /\ ScoreIdle
  /\ SweepIdle
  /\ HubIdle
  /\ GenIdle
  /\ ApiIdle
  /\ McpIdle
  /\ LogIdle
  /\ ConfigIdle

\* What the processors and the handler of job j do.
WorkerStep(j) ==
  \/ Dispatch(j)
  \/ HandlerAnalyze(j)
  \/ HandlerGenerate(j)
  \/ HandlerStoreStep(j)
  \/ HandlerCleanup(j)
  \/ HandlerCatch(j)
  \/ HandlerAlert(j)
  \/ Settle(j)

\* The load: a job that archives and deploys shares the queues with trend
\* analyses or with jobs of its own lane, so that one archive-then-deploy run
\* is in progress at a time.
NoJobIn(lanes) == \A o \in Jobs : jobs[o].lane \notin lanes

LiveNext ==
  \E j \in Jobs :
    \/ /\ NoJobIn({"rule-generation", "emergency-updates"})
       /\ addRuleGenerationJob(j)
    \/ addTrendAnalysisJob(j)
    \/ /\ NoJobIn({"rule-generation"})
       /\ addEmergencyUpdateJob(j)
    \/ WorkerStep(j)

SpecQueueFair ==
  /\ LiveInit
  /\ [][LiveNext]_vars
  /\ \A j \in Jobs : WF_vars(WorkerStep(j))

(***************************************************************************)
(* The scheduler's public methods with the name they are given and the    *)
(* value they return.  A name may be that of no registered task.           *)
(***************************************************************************)
TaskNamesAsked == TaskNames \cup {"no-such-task"}

\* What the three methods return: false for a name scheduledTasks does not
\* hold, true otherwise.
Returned(method, taskName) ==
  [method |-> method, taskName |-> taskName,
   returned |-> taskName \in DOMAIN tasks]

otherThanSchedAndApi ==
  <<storeVars, queueVars, trendVars, opsVars, scoreVars, sweepVars, hubVars,
    genVars, mcpVars, logVars, configVars>>

enableTaskCall(taskName) ==
  /\ tasks' = SetEnabled(tasks, taskName, TRUE)
  /\ called' = Returned("enableTask", taskName)
  /\ UNCHANGED otherThanSchedAndApi

disableTaskCall(taskName) ==
  /\ tasks' = SetEnabled(tasks, taskName, FALSE)
  /\ called' = Returned("disableTask", taskName)
  /\ UNCHANGED otherThanSchedAndApi

\* task.task.now() runs the callback of the task; return true.
triggerTaskCall(taskName) ==
  /\ IF taskName \in DOMAIN tasks
     THEN Callback(taskName)
     ELSE UNCHANGED <<tasks, clock>>
  /\ called' = Returned("triggerTask", taskName)
  /\ UNCHANGED <<ruleFile, archiveDir, historyFile, deploymentFile, faults,
                 hist0, runs, queueVars, trendVars, opsVars, scoreVars,
                 sweepVars, hubVars, genVars, mcpVars, logVars, configVars>>

ApiInit ==
  /\ ruleFile = [t \in RuleTypes |-> NoFile]
  /\ historyFile = [t \in RuleTypes |-> <<>>]
  /\ hist0 = [t \in RuleTypes |-> 0]
  /\ archiveDir = {}
  /\ deploymentFile = [t \in RuleTypes |-> NoDeployment]
  /\ clock = 1
  /\ faults = 0
  /\ runs = [r \in RunIds |-> IdleRun]
  /\ instances = 1
  /\ jobs = [j \in Jobs |-> NoJob]
  /\ alerts = {}
  /\ SchedIdle
  /\ TrendIdle
  /\ OpsIdle
  /\ ScoreIdle
  /\ SweepIdle
  /\ HubIdle
  /\ GenIdle
  /\ ApiIdle
  /\ McpIdle
  /\ LogIdle
  /\ ConfigIdle

\* The load: one of the tasks is triggered by hand (no schedule matches
\* meanwhile), the others are only enabled and disabled.
TriggeredNames == {"daily-trend-analysis", "no-such-task"}

ApiNext ==
  \/ \E taskName \in TaskNamesAsked :
       \/ enableTaskCall(taskName)
       \/ disableTaskCall(taskName)
  \/ \E taskName \in TriggeredNames : triggerTaskCall(taskName)
  \/ \E name \in TriggeredNames \cap TaskNames : CallbackEnd(name)

SpecApi == ApiInit /\ [][ApiNext]_vars

(***************************************************************************)
(* AIRulesManagementServer: the CallTool request handler and the four tool *)
(* handlers it dispatches to, one request at a time.                       *)
(***************************************************************************)
ToolNames == {"generate_best_practices", "update_rule_file",
              "inject_context_rules", "analyze_technology_trends"}
ToolNamesAsked == ToolNames \cup {"no_such_tool"}

\* The technology and year arguments tried with generate_best_practices.
TechnologiesAsked == {"python", "cobol"}
YearsAsked == {"2023", "2024", "2030", "2031", "abc"}

\* new Date().getFullYear()
CurrentYear == 2025

\* parseInt(year): NaN for a string that does not start with digits.
ParseInt(year) ==
  CASE year = "2023" -> [nan |-> FALSE, value |-> 2023]
    [] year = "2024" -> [nan |-> FALSE, value |-> 2024]
    [] year = "2030" -> [nan |-> FALSE, value |-> 2030]
    [] year = "2031" -> [nan |-> FALSE, value |-> 2031]
    [] OTHER -> [nan |-> TRUE, value |-> 0]

\* yearNum < currentYear - 1 || yearNum > currentYear + 5: both comparisons
\* are false for NaN.
InvalidYear(year) ==
  LET yearNum == ParseInt(year)
  IN /\ ~yearNum.nan
     /\ (yearNum.value < CurrentYear - 1 \/ yearNum.value > CurrentYear + 5)

UnsupportedTechnology(technology) ==
  \A i \in DOMAIN SupportedTechnologies : SupportedTechnologies[i] # technology

\* A request handler without its catch: what a handler throws reaches the
\* caller.
CaughtPropagating(call, at) ==
  [call EXCEPT !.pc = "responded", !.failedAt = at, !.response = "thrown"]

\* The catch of the request handler: return { content: [...], isError: true }.
Caught(call, at) ==
  [call EXCEPT !.pc = "responded", !.failedAt = at, !.response = "isError"]

\* A tool handler returns { content: [...] }.
Completed(call) ==
  [call EXCEPT !.pc = "responded", !.completed = TRUE, !.response = "content"]

\* The awaits of each tool handler other than update_rule_file, in order.
Awaits(name) ==
  CASE name = "generate_best_practices" -> <<"analyzeTechnology", "generateRules">>
    [] name = "inject_context_rules" ->
         <<"analyzePromptTechnologies", "generateContextInjection">>
    [] name = "analyze_technology_trends" -> <<"analyzeTechnology">>
    [] OTHER -> <<>>

\* The request handler up to the first await of the tool handler: the
\* switch on the name, and the validation in handleGenerateBestPractices.
CallTool(name, technology, year) ==
  /\ toolCall.pc \in {"idle", "responded"}
  /\ toolCall.n < MaxRuns
  /\ LET call == [NoToolCall EXCEPT !.n = toolCall.n + 1, !.name = name]
     IN CASE name = "generate_best_practices" ->
               /\ toolCall' =
                    LET asked == [call EXCEPT !.technology = technology,
                                              !.year = year]
                    IN IF UnsupportedTechnology(technology)
                       THEN Caught(asked, "technology")
                       ELSE IF InvalidYear(year)
                            THEN Caught(asked, "year")
                            ELSE [asked EXCEPT !.pc = "analyzeTechnology"]
               /\ UNCHANGED runs
          [] name = "update_rule_file" ->
               /\ toolCall' = [call EXCEPT !.pc = "store"]
               /\ \E ruleType \in RuleTypes, version \in Versions :
                    BeginRun(call.n, ArchiveThenDeploy(ruleType,
                                                       ContentOf(call.n), version))
          [] name \in {"inject_context_rules", "analyze_technology_trends"} ->
               /\ toolCall' = [call EXCEPT !.pc = Head(Awaits(name))]
               /\ UNCHANGED runs
          [] OTHER ->
               /\ toolCall' = Caught(call, "switch")
               /\ UNCHANGED runs
  /\ UNCHANGED <<ruleFile, archiveDir, historyFile, deploymentFile, clock,
                 faults, hist0, otherThanMcp>>

\* An await of a tool handler settles: the handler goes on, or returns its
\* content after the last one, or logs and rethrows.
ToolAwait ==
  /\ \E i \in DOMAIN Awaits(toolCall.name) :
       /\ toolCall.pc = Awaits(toolCall.name)[i]
       /\ \E ok \in IoOutcomes :
            toolCall' =
              IF ~ok THEN Caught(toolCall, toolCall.pc)
              ELSE IF i = Len(Awaits(toolCall.name)) THEN Completed(toolCall)
              ELSE [toolCall EXCEPT !.pc = Awaits(toolCall.name)[i + 1]]
  /\ UNCHANGED <<storeVars, otherThanMcp>>

\* handleUpdateRuleFile after archiveCurrentRule and deployNewRule: the
\* message, or throw new Error('Failed to update rule: ...').
ToolStoreReturns ==
  /\ toolCall.pc = "store"
  /\ runs[toolCall.n].pc \in {"done", "failed"}
  /\ toolCall' = IF runs[toolCall.n].pc = "done"
                 THEN Completed(toolCall)
                 ELSE Caught(toolCall, "store")
  /\ UNCHANGED <<storeVars, otherThanMcp>>

McpInit ==
  /\ ruleFile = [t \in RuleTypes |-> IF t = RuleTypeOf("python")
                                      THEN InitialContent ELSE NoFile]
  /\ historyFile = [t \in RuleTypes |-> <<>>]
  /\ hist0 = [t \in RuleTypes |-> 0]
  /\ archiveDir = {}
  /\ deploymentFile = [t \in RuleTypes |-> NoDeployment]
  /\ clock = 1
  /\ faults = 0
  /\ runs = [r \in RunIds |-> IdleRun]
  /\ QueueIdle
  /\ SchedIdle
  /\ TrendIdle
  /\ OpsIdle
  /\ ScoreIdle
  /\ SweepIdle
  /\ HubIdle
  /\ GenIdle
  /\ ApiIdle
  /\ toolCall = NoToolCall
  /\ LogIdle
  /\ ConfigIdle

McpNext ==
  \/ \E name \in ToolNamesAsked, technology \in TechnologiesAsked,
        year \in YearsAsked : CallTool(name, technology, year)
  \/ ToolAwait
  \/ ToolStoreReturns
  \/ \E r \in RunIds : HandlerStoreStep(r)

SpecMcp == McpInit /\ [][McpNext]_vars

(***************************************************************************)
(* NotificationService.broadcast with its message history.  Every message  *)
(* here is of one type, so that an entry of the history is told from the   *)
(* others by the number of the broadcast call that pushed it.              *)
(***************************************************************************)
\* { timestamp: new Date(), type: message.type, data: message.data } of the
\* nth broadcast call.
HistoryEntry(n) == [timestamp |-> n, type |-> "summary"]

\* The push alone, without the trimming.
addToHistoryUntrimmed(history, entry) == Append(history, entry)

\* this.messageHistory.push(...); if (length > maxHistorySize)
\* this.messageHistory = this.messageHistory.slice(-maxHistorySize).
addToHistory(history, entry) ==
  LET pushed == Append(history, entry)
  IN IF Len(pushed) > MaxHistorySize
     THEN SubSeq(pushed, Len(pushed) - MaxHistorySize + 1, Len(pushed))
     ELSE pushed

\* broadcast(message, channel): the message goes to the history first, then
\* to the subscribers of the channel.
broadcastCall(channel) ==
  /\ broadcasts.calls < MaxMessages
  /\ messageHistory' = addToHistory(messageHistory,
                                    HistoryEntry(broadcasts.calls + 1))
  /\ \E threw \in SUBSET {c \in Registered : clients[c].readyState = "OPEN"} :
       LET loop == broadcast(clients, channel, threw)
       IN /\ clients' = loop.registry
          /\ received' = {<<c, channel>> : c \in loop.sent}
          /\ broadcasts' = [calls |-> broadcasts.calls + 1,
                            channels |-> <<channel>>, threw |-> threw]
  /\ UNCHANGED otherThanHubAndLog

LogInit ==
  /\ ruleFile = [t \in RuleTypes |-> NoFile]
  /\ historyFile = [t \in RuleTypes |-> <<>>]
  /\ hist0 = [t \in RuleTypes |-> 0]
  /\ archiveDir = {}
  /\ deploymentFile = [t \in RuleTypes |-> NoDeployment]
  /\ clock = 1
  /\ faults = 0
  /\ runs = [r \in RunIds |-> IdleRun]
  /\ QueueIdle
  /\ SchedIdle
  /\ TrendIdle
  /\ OpsIdle
  /\ ScoreIdle
  /\ SweepIdle
  /\ HubIdle
  /\ GenIdle
  /\ ApiIdle
  /\ McpIdle
  /\ messageHistory = <<>>
  /\ ConfigIdle

\* The load: one client connects; the broadcasts go to the channel it is
\* subscribed to or to one nobody is subscribed to.
LogNext ==
  \/ connection(1)
  \/ \E channel \in {"general", "rule-updates"} : broadcastCall(channel)

SpecLog == LogInit /\ [][LogNext]_vars

(***************************************************************************)
(* What the claims speak of.                                               *)
(***************************************************************************)
UpdatesOn(ruleType) ==
  {r \in RunIds : runs[r].kind = "update" /\ runs[r].ruleType = ruleType}

CallsOn(ruleType) ==
  {r \in RunIds : runs[r].kind # "none" /\ runs[r].ruleType = ruleType}

\* Every call made on the rule type is an update that completed, none of them
\* overlapped another and none met an I/O fault.
SerialSuccessfulUpdates(ruleType) ==
  \A r \in CallsOn(ruleType) :
    /\ runs[r].kind = "update"
    /\ runs[r].pc = "done"
    /\ ~runs[r].overlapped
    /\ ~runs[r].faulted

ChecksumRecorded(ruleType) ==
  /\ getRuleVersionInfo(ruleType) # NoDeployment
  /\ getRuleVersionInfo(ruleType).checksum = calculateChecksum(ruleFile[ruleType])

\* C1: in every update, deployNewRule starts only after archiveCurrentRule of
\* the same update has returned; an update whose archiveCurrentRule threw
\* never starts deployNewRule and never writes the active rule file.
C1_ArchiveBeforeDeploy ==
  \A r \in RunIds :
    runs[r].kind = "update" =>
      /\ (runs[r].pc \in DeployPcs \/ runs[r].deployStarted) => runs[r].archiveReturned
      /\ runs[r].err = "archive" =>
           /\ runs[r].pc = "failed"
           /\ ~runs[r].archiveReturned
           /\ ~runs[r].deployStarted
           /\ ~runs[r].wroteActive

\* One update has deployed after archiving an existing rule, another ended
\* with its archive step thrown.
C1_Witness ==
  \E r, o \in RunIds :
    /\ runs[r].kind = "update" /\ runs[r].err = "archive"
    /\ runs[o].kind = "update" /\ runs[o].pc = "done"
    /\ runs[o].hadActive /\ runs[o].deployStarted

\* C2: two overlapping updates of one rule type, both started on an existing
\* rule and both completed without fault, leave two new history entries and
\* an active file whose recorded checksum is its own.
C2_ConcurrentUpdatesConsistent ==
  \A r, o \in RunIds :
    ( /\ r # o
      /\ runs[r].kind = "update" /\ runs[o].kind = "update"
      /\ runs[r].ruleType = runs[o].ruleType
      /\ runs[r].pc = "done" /\ runs[o].pc = "done"
      /\ runs[r].overlapped /\ runs[o].overlapped
      /\ runs[r].hadActive /\ runs[o].hadActive
      /\ ~runs[r].faulted /\ ~runs[o].faulted )
    => /\ Len(getRuleHistory(runs[r].ruleType))
            = Min(HistoryCap, hist0[runs[r].ruleType] + 2)
       /\ ChecksumRecorded(runs[r].ruleType)

C5_ChecksumMatchesContent ==
  \A t \in RuleTypes :
    (ruleFile[t] # NoFile /\ getRuleVersionInfo(t) # NoDeployment)
      => getRuleVersionInfo(t).checksum = calculateChecksum(ruleFile[t])

\* The handler's run of archive-then-deploy is under way: archiveCurrentRule
\* has been called and deployNewRule has not returned.
InSection(j) == runs[j].pc \in ArchivePcs \cup DeployPcs

\* C3: two jobs of one rule type are never inside their archive-then-deploy
\* runs at the same time.
C3_RunsMutuallyExclusive ==
  \A j, o \in Jobs :
    (j # o /\ InSection(j) /\ InSection(o))
      => runs[j].ruleType # runs[o].ruleType

Settled(j) == jobs[j].state \in {"completed", "failed"}

\* The job is over and its last attempt failed.
TerminalFailure(j) == Settled(j) /\ jobs[j].result = "failure"

\* C6: a job is over after a failed attempt only when it is dead (failed) with
\* all its attempts made; short of that a failed attempt is retried.
C6_RetryLaw ==
  \A j \in Jobs :
    TerminalFailure(j)
      => /\ jobs[j].state = "failed"
         /\ jobs[j].attemptsMade = Attempts(jobs[j].lane)

FailureAlerts(j) ==
  {a \in alerts : a.job = j /\ a.failed > 0 /\ "emergency-alerts" \in a.channels}

\* C7: a job that ended in failure has exactly one failure alert on the
\* emergency-alerts channel, and a job that ended well has none.
C7_OneAlertPerTerminalFailure ==
  \A j \in Jobs :
    Settled(j) =>
      Cardinality(FailureAlerts(j)) = (IF TerminalFailure(j) THEN 1 ELSE 0)

\* C8: at most one invocation of a task's handler is in progress.
C8_SingleInstance == \A name \in TaskNames : tasks[name].running <= 1

\* C9: no generation or analysis job is taken up while an emergency job waits.
C9_EmergencyFirst ==
  [][\A j \in Jobs :
       ( /\ jobs[j].state \in {"waiting", "delayed"}
         /\ jobs'[j].state = "active"
         /\ jobs[j].lane # "emergency-updates" )
       => WaitingIn("emergency-updates") = {}]_vars

\* C10: at most one emergency job is active, and no more generation jobs than
\* the configured concurrency.
C10_LaneConcurrency ==
  /\ Cardinality(ActiveIn("emergency-updates")) <= EmergencyConcurrency
  /\ Cardinality(ActiveIn("rule-generation")) <= GenerationConcurrency

\* The job's handler has its trend data and the score in it is under the
\* minimum.
LowScore(j) == jobs[j].score # 0 /\ jobs[j].score < MinimumScore

\* C13: a scheduled job of the generation lane whose score is under the
\* minimum starts no archive-then-deploy run.
C13_LowScoreSkipped ==
  \A j \in Jobs :
    ( /\ jobs[j].lane = "rule-generation"
      /\ jobs[j].triggeredBy = "schedule"
      /\ LowScore(j) )
    => /\ jobs[j].hpc # "store"
       /\ runs[j].kind = "none"

\* C14: an emergency job whose generation succeeded has started its
\* archive-then-deploy run whatever its score, and it reports success only
\* with that run completed.
C14_EmergencyNeverSkipped ==
  \A j \in Jobs :
    jobs[j].lane = "emergency-updates" =>
      /\ jobs[j].hpc = "store" => runs[j].kind = "update"
      /\ jobs[j].result = "success" =>
           /\ runs[j].pc = "done"
           /\ runs[j].archiveReturned
           /\ runs[j].deployStarted

\* An emergency job with a score under the minimum has archived and deployed.
C14_Witness ==
  \E j \in Jobs :
    /\ jobs[j].lane = "emergency-updates"
    /\ LowScore(j)
    /\ runs[j].pc = "done" /\ runs[j].deployStarted

\* C15: a job whose analysis step failed does not end in failure on that
\* account: it goes on to generation.
C15_AnalysisFailureNonFatal ==
  \A j \in Jobs :
    ( /\ jobs[j].lane \in {"rule-generation", "emergency-updates"}
      /\ jobs[j].failedAt = "analyze" )
    => jobs[j].result # "failure"

\* C11: for one technology at most one round of fetches is in progress, and
\* callers that overlapped on a miss hold the result of the same round.
C11_SingleFlight ==
  \A c, d \in CallerIds :
    ( /\ c # d
      /\ callers[c].technology = callers[d].technology
      /\ callers[c].pc = "fetching" )
    => callers[d].pc # "fetching"

\* C12: a call returns the cached data, with no round of fetches started,
\* exactly when an entry exists that is younger than two hours; otherwise it
\* starts one round, and when that round succeeds the entry of the technology
\* is the new data with the current time.
C12_CacheLaw ==
  [][\A c \in CallerIds :
       /\ (callers[c].pc = "idle" /\ callers'[c].pc # "idle") =>
            LET entry == trendCache[callers'[c].technology]
                young == entry.present /\ dateNow - entry.timestamp < 1000 * 60 * 60 * 2
            IN IF young
               THEN /\ callers'[c].pc = "returned"
                    /\ callers'[c].result = entry.data
                    /\ fetches' = fetches
               ELSE /\ callers'[c].pc = "fetching"
                    /\ fetches'[callers'[c].technology]
                         = fetches[callers'[c].technology] + 1
       /\ (callers[c].pc = "fetching" /\ callers'[c].pc = "returned") =>
            trendCache'[callers[c].technology] =
              [present |-> TRUE, data |-> callers'[c].result, timestamp |-> dateNow]
    ]_vars

\* One call was served from the cache, and a later one, made when the entry
\* was two hours old, fetched again and has returned.
C12_Witness ==
  \E c, d \in CallerIds :
    /\ callers[c].technology = callers[d].technology
    /\ callers[c].pc = "returned" /\ callers[c].round = 0
    /\ callers[d].pc = "returned" /\ callers[d].round = 2
    /\ trendCache[callers[d].technology].timestamp = CacheDuration

\* The version an archive file was written under: its name without the rule
\* type in front and the timestamp behind.
VersionOfArchive(ruleType, name) == SubSeq(name, Len(ruleType) + 1, Len(name) - 1)

\* The rollback has found its archive and not yet returned.
PastFind(r) ==
  /\ runs[r].kind = "rollback"
  /\ runs[r].pc \in (ArchivePcs \cup RollbackPcs) \ {"rbFind"}

\* C16: a rollback goes past its search only with an archive of exactly the
\* version asked for; without one it fails and writes nothing.
C16_RollbackNeedsThatVersion ==
  \A r \in RunIds :
    /\ PastFind(r) =>
         VersionOfArchive(runs[r].ruleType, runs[r].target.name) = runs[r].version
    /\ (runs[r].kind = "rollback" /\ runs[r].err = "notFound") =>
         /\ runs[r].pc = "failed"
         /\ ~runs[r].wroteActive

\* The rollback ran alone and without fault from a rule type with an active
\* rule file, and has returned.
CleanRollback(r) ==
  /\ runs[r].kind = "rollback"
  /\ runs[r].pc = "done"
  /\ runs[r].hadActive
  /\ ~runs[r].overlapped
  /\ ~runs[r].faulted

\* C17: after a rollback the history holds the entry of the backup archive of
\* what was active, and its reason is manual_rollback.
C17_BackupUnderManualRollback ==
  \A r \in RunIds :
    CleanRollback(r) =>
      \E i \in DOMAIN historyFile[runs[r].ruleType] :
        LET entry == historyFile[runs[r].ruleType][i]
        IN /\ entry.version = RollbackBackupVersion
           /\ entry.reason = "manual_rollback"

\* A cleanupOldArchives call is made in this step.
CleanupStep == cleanup'.calls = cleanup.calls + 1

\* C18: a cleanup leaves every active rule file as it was, and a second
\* cleanup with the same cutoff right after it would change nothing more.
C18_CleanupIdempotent ==
  [][CleanupStep =>
       /\ ruleFile' = ruleFile
       /\ CleanedArchives(archiveDir', cleanup'.cutoff) = archiveDir'
       /\ Cardinality(OldArchives(archiveDir', cleanup'.cutoff))
            = Cardinality(OldArchives(archiveDir, cleanup'.cutoff))
    ]_vars

\* Two cleanups have been made, the last with two old archives to count, and
\* an active rule file is there.
C18_Witness ==
  /\ cleanup.calls = 2
  /\ cleanup.marked = 2
  /\ \E t \in RuleTypes : ruleFile[t] # NoFile

\* C19: while a task is disabled no step starts its handler, and the task
\* stays registered with its nextRun.
C19_DisabledNeverRuns ==
  [][\A name \in TaskNames :
       ~tasks[name].enabled =>
         /\ tasks'[name].runCount = tasks[name].runCount
         /\ tasks'[name].running <= tasks[name].running
         /\ tasks'[name].lastRun = tasks[name].lastRun
         /\ tasks'[name].nextRun = tasks[name].nextRun
         /\ DOMAIN tasks' = DOMAIN tasks
    ]_vars

\* A disabled task was fired and logged the skip; it had run before.
C19_Witness ==
  \E name \in TaskNames :
    /\ ~tasks[name].enabled
    /\ tasks[name].skipped > 0
    /\ tasks[name].runCount = 1

CappedRatio(value, ceiling) == Min((value * ScoreUnit) \div ceiling, ScoreUnit)

BreakingTerm == IF trends.breakingChanges > 0 THEN ScoreUnit ELSE 2000

WeightedSumTenths ==
  3 * CappedRatio(trends.totalRepos, 10000)
  + 2 * CappedRatio(trends.totalQuestions, 1000)
  + 3 * Max(0, CappedRatio(trends.weeklyGrowth, 20))
  + 2 * BreakingTerm

AllSignals == trends.totalRepos > 0 /\ trends.totalQuestions > 0

\* C21: with activity and discussion figures both present, the score is
\* 0.3*min(activity/10000, 1) + 0.2*min(discussions/1000, 1)
\* + 0.3*max(0, min(growth/20, 1)) + 0.2*b, b being 1.0 with a breaking
\* change and 0.2 without, and lies in [0, 1]; for activity 5000, growth 10
\* and no breaking change the three terms are 0.15, 0.15 and 0.04.
C21_WeightedScore ==
  (updatePriority # NotScored /\ AllSignals) =>
    /\ 10 * updatePriority = WeightedSumTenths
    /\ updatePriority >= 0
    /\ updatePriority <= ScoreUnit
    /\ (trends.totalRepos = 5000 /\ trends.weeklyGrowth = 10
          /\ trends.breakingChanges = 0) =>
         updatePriority =
           1500 + (2 * CappedRatio(trends.totalQuestions, 1000)) \div 10
           + 1500 + 400

C21_Witness ==
  /\ updatePriority # NotScored
  /\ AllSignals
  /\ trends.totalRepos = 5000
  /\ trends.weeklyGrowth = 10
  /\ trends.breakingChanges = 0

\* C22: a missing sub-signal adds nothing to the weighted sum and its weight
\* leaves the denominator, and with no signal at all (no repositories, no
\* questions, no growth, no breaking change) the score is exactly 0.3.
C22_MissingSignalsNeutral ==
  updatePriority # NotScored =>
    /\ (trends.totalRepos = 0 /\ trends.totalQuestions > 0) =>
         updatePriority =
           Min((WeightedSumTenths - 3 * CappedRatio(trends.totalRepos, 10000))
                 \div 7, ScoreUnit)
    /\ (trends.totalRepos = 0 /\ trends.totalQuestions = 0
          /\ trends.weeklyGrowth = 0 /\ trends.breakingChanges = 0) =>
         updatePriority = NeutralScore

JobsQueued == {j \in Jobs : jobs[j].state # "none"}

Attempted == {sweep.attempts[i].technology : i \in 1..Len(sweep.attempts)}

\* C23: a run of the monthly-comprehensive-update handler tries one
\* rule-generation job at medium priority for each supported technology, in
\* order; a failed add does not end the run, and when the run is over
\* successful + failed is the number of supported technologies.
C23_ComprehensiveCycle ==
  sweep.task = "monthly-comprehensive-update" =>
    /\ sweep.pc # "threw"
    /\ sweep.successful + sweep.failed = Len(sweep.attempts)
    /\ \A i \in 1..Len(sweep.attempts) :
         sweep.attempts[i].technology = SupportedTechnologies[i]
    /\ Cardinality(JobsQueued) = sweep.successful
    /\ \A j \in JobsQueued :
         /\ jobs[j].lane = "rule-generation"
         /\ jobs[j].priority = 5
         /\ \E i \in 1..Len(sweep.attempts) :
              sweep.attempts[i] = [technology |-> jobs[j].technology, ok |-> TRUE]
    /\ sweep.pc = "done" =>
         sweep.successful + sweep.failed = Len(SupportedTechnologies)

C23_Witness ==
  /\ sweep.task = "monthly-comprehensive-update"
  /\ sweep.pc = "done"
  /\ sweep.attempts = <<[technology |-> "python", ok |-> FALSE],
                        [technology |-> "java", ok |-> TRUE]>>
  /\ sweep.failed = 1
  /\ Cardinality(JobsQueued) = 1

\* C24: when a run of the weekly-rule-check handler is over, a high-priority
\* rule-generation job has been tried for a technology if and only if its
\* score is over 0.7.
C24_PrioritySweep ==
  (sweep.task = "weekly-rule-check" /\ sweep.pc \in {"done", "threw"}) =>
    /\ \A technology \in Technologies :
         technology \in Attempted <=>
           /\ sweep.allTrends[technology] # NoTrends
           /\ calculateUpdatePriority(sweep.allTrends[technology]) > 7000
    /\ \A j \in JobsQueued :
         jobs[j].lane = "rule-generation" /\ jobs[j].priority = 1

\* C25: when a run of the security-advisory-check handler is over, every
\* technology with a critical flag whose check answered has an emergency
\* job, and no technology without one has.
C25_EmergencySweep ==
  (sweep.task = "security-advisory-check" /\ sweep.pc = "done") =>
    \A technology \in Technologies :
      LET answered == \E i \in 1..Len(sweep.attempts) :
                        sweep.attempts[i] = [technology |-> technology, ok |-> TRUE]
          queued == \E j \in JobsQueued :
                      /\ jobs[j].lane = "emergency-updates"
                      /\ jobs[j].technology = technology
      IN /\ (technology \in sweep.flagged /\ answered) => queued
         /\ technology \notin sweep.flagged => ~queued


\* C26: the outcome of every executed job is published on 'rule-updates',
\* and on 'general' as well if and only if the job is an emergency job (the
\* scheduled rule-generation jobs of this model are all flagged major).
C26_OutcomePublished ==
  \A j \in Jobs :
    (jobs[j].state = "completed"
       /\ jobs[j].lane \in {"rule-generation", "emergency-updates"}) =>
      /\ \E a \in alerts : a.job = j /\ "rule-updates" \in a.channels
      /\ \E a \in alerts : a.job = j /\ "general" \in a.channels

Eligible(channel) ==
  {c \in ClientIds : /\ clients[c].connected
                     /\ channel \in clients[c].subscriptions
                     /\ clients[c].readyState = "OPEN"}

\* C27: in one broadcast on a channel every subscriber of the channel with
\* an open socket whose send does not throw is sent the message, whoever
\* else is not open or throws; a subscriber whose send threw is dropped
\* from the clients map; nobody else is sent it or dropped.
C27_BestEffortBroadcast ==
  [][broadcasts'.calls = broadcasts.calls + 1 =>
       LET channel == Head(broadcasts'.channels)
           threw == broadcasts'.threw
       IN /\ \A c \in Eligible(channel) \ threw : <<c, channel>> \in received'
          /\ \A c \in Eligible(channel) \cap threw :
               ~clients'[c].connected /\ <<c, channel>> \notin received'
          /\ \A c \in ClientIds \ Eligible(channel) :
               <<c, channel>> \notin received'
          /\ \A c \in ClientIds \ threw : clients'[c] = clients[c]]_vars

C27_Witness ==
  /\ broadcasts.calls > 0
  /\ \E a \in broadcasts.threw, c \in ClientIds, d \in ClientIds :
       /\ a < c
       /\ ~clients[a].connected
       /\ <<c, Head(broadcasts.channels)>> \in received
       /\ clients[d].connected
       /\ clients[d].readyState = "CLOSED"
       /\ Head(broadcasts.channels) \in clients[d].subscriptions

SubscriptionsValid ==
  \A c \in Registered :
    clients[c].subscriptions # {} /\ clients[c].subscriptions \subseteq ValidChannels

SubscriptionStep ==
  \A c \in ClientIds :
    /\ (~clients[c].connected /\ clients'[c].connected) =>
         clients'[c].subscriptions = {"general"}
    /\ (clients[c].connected /\ clients'[c].connected
          /\ clients'[c].subscriptions # clients[c].subscriptions) =>
         \/ clients[c].subscriptions \subseteq clients'[c].subscriptions
         \/ clients'[c].subscriptions \subseteq clients[c].subscriptions
         \/ clients'[c].subscriptions = {"general"}

\* C30: every client in the clients map has a non-empty set of subscriptions
\* within the five channels; a new client has {general}, a subscribe message
\* only adds, an unsubscribe message only removes, and one that removes
\* everything leaves {general}.
C30_SubscriptionsValid == []SubscriptionsValid /\ [][SubscriptionStep]_vars

C30_Witness ==
  \E c \in Registered, d \in Registered :
    /\ clients[c].subscriptions = {"rule-updates"}
    /\ clients[d].subscriptions = {"general", "rule-updates"}
    /\ c # d

\* C28: history entries are never removed or changed by archiveCurrentRule,
\* deployNewRule and rollbackToVersion in calls that follow one another and
\* meet no failing file operation: every entry a history holds is still in
\* it, with the same fields, after every step (getRuleHistory returns the
\* stored entries, sorted).
C28_EntriesKept ==
  [][(\A r \in RunIds : ~runs'[r].faulted /\ ~runs'[r].overlapped) =>
       \A ruleType \in RuleTypes :
         \A i \in 1..Len(historyFile[ruleType]) :
           \E k \in 1..Len(historyFile'[ruleType]) :
             historyFile'[ruleType][k] = historyFile[ruleType][i]]_vars

\* C29: the first analyzeTechnology call for a technology after clearCache
\* computes afresh: it starts the source analyses and returns nothing from
\* the cache.
C29_InvalidationForcesRecompute ==
  [][\A c \in CallerIds :
       (callers[c].pc = "idle" /\ callers'[c].pc # "idle"
          /\ callers'[c].technology \in invalidated) =>
         callers'[c].pc = "fetching"]_vars

\* C31: a job whose handler run ended in failure is not completed: settling
\* it counts the attempt and, while attempts remain, puts the job aside as
\* delayed (to be retried after the backoff); with no attempt left it is
\* failed.
C31_FailureBacksOff ==
  [][\A j \in Jobs :
       (jobs[j].state = "active" /\ jobs[j].result = "failure"
          /\ jobs'[j].state # "active") =>
         /\ jobs'[j].attemptsMade = jobs[j].attemptsMade + 1
         /\ jobs'[j].state = IF jobs'[j].attemptsMade < jobs[j].attempts
                             THEN "delayed" ELSE "failed"]_vars

\* C32: a job in which a search or scraping call timed out does not end as a
\* success and deploys nothing: the timeout makes its handler fail.
C32_TimeoutFailsJob ==
  generation.timedOut # {} =>
    /\ generation.result # "success"
    /\ ~generation.deployed

HasResult(j) ==
  \/ jobs[j].state = "active" /\ jobs[j].hpc \in {"alert", "return"}
  \/ jobs[j].state = "completed"

\* C34: the generation handlers never reject: a job is never delayed for a
\* retry or failed by its handler; when the trend analysis, the generation,
\* archiveCurrentRule or deployNewRule threw, the JobResult says failure;
\* and it says success only when deployNewRule has returned for the job.
C34_HandlerNeverRejects ==
  \A j \in Jobs :
    /\ jobs[j].state \notin {"delayed", "failed"}
    /\ (HasResult(j) /\ (jobs[j].failedAt # "none" \/ runs[j].pc = "failed"))
         => jobs[j].result = "failure"
    /\ (jobs[j].result = "success" /\ jobs[j].lane # "trend-analysis")
         => runs[j].pc = "done"

\* A job is completed with a failure result after archiveCurrentRule or
\* deployNewRule threw in its handler.
C34_Witness ==
  \E j \in Jobs :
    /\ jobs[j].state = "completed" /\ jobs[j].result = "failure"
    /\ runs[j].pc = "failed"

\* C35: with fair processors and handlers whose awaits return, every job
\* that was added ends completed or failed: it does not stay waiting,
\* delayed or active for ever.
C35_EveryJobSettles ==
  \A j \in Jobs :
    (jobs[j].state \in {"waiting", "delayed", "active"})
      ~> (jobs[j].state \in {"completed", "failed"})

\* Two jobs were added to the emergency lane, whose one processor takes
\* them in turn, and both are over, one of them after a failed attempt.
C35_Witness ==
  /\ \A j \in Jobs : jobs[j].state = "completed"
                      /\ jobs[j].lane = "emergency-updates"
  /\ \E j \in Jobs : jobs[j].result = "failure"

\* What a firing of an enabled task, the end of a handler and a firing of a
\* disabled task do to the entry of the task.
CountersStep ==
  \A name \in TaskNames :
    LET task == tasks[name]
        after == tasks'[name]
    IN /\ after.runCount \in {task.runCount, task.runCount + 1}
       /\ after.runCount = task.runCount + 1 =>
            /\ task.enabled
            /\ after = [task EXCEPT !.runCount = task.runCount + 1,
                                    !.lastRun = clock,
                                    !.running = task.running + 1]
       /\ after.errorCount \in {task.errorCount, task.errorCount + 1}
       /\ after.errorCount = task.errorCount + 1 =>
            /\ name \in RethrowingTasks
            /\ after = [task EXCEPT !.errorCount = task.errorCount + 1,
                                    !.running = task.running - 1]
       /\ (name \in CriticalTasks /\ after.running = task.running - 1) =>
            (after.errorCount = task.errorCount + 1
               <=> alerts' = alerts \cup {TaskFailureAlert(name, after.errorCount)}
                   /\ alerts' # alerts)
       /\ (~task.enabled /\ after.skipped = task.skipped + 1) =>
            after = [task EXCEPT !.skipped = task.skipped + 1]

\* C36: for every registered task 0 <= errorCount <= runCount always; a
\* firing of an enabled task raises runCount by one and sets lastRun, and
\* nothing else raises it; errorCount goes up by one exactly when a handler
\* of the task throws (never for a handler that catches everything, and
\* together with the failure alert for a critical task); a firing of a
\* disabled task changes no field of its entry.
C36_RunAndErrorCounts ==
  /\ [](\A name \in TaskNames :
          /\ 0 <= tasks[name].errorCount
          /\ tasks[name].errorCount <= tasks[name].runCount)
  /\ [][CountersStep]_vars

\* A task has run twice and failed once, and a firing of another task found
\* it disabled before it ever ran.
C36_Witness ==
  \E name, other \in TaskNames :
    /\ tasks[name].runCount = 2 /\ tasks[name].errorCount = 1
    /\ tasks[name].running = 0
    /\ ~tasks[other].enabled /\ tasks[other].skipped = 1
    /\ tasks[other].runCount = 0

\* C37: enableTask and disableTask of a registered name return true and
\* change the enabled flag of that task and nothing else: its lastRun,
\* nextRun, runCount and errorCount and every other task stay as they are;
\* enableTask, disableTask and triggerTask of an unregistered name return
\* false and change nothing.
C37_EnableDisableFrame ==
  [][called' # called =>
       LET taskName == called'.taskName
           method == called'.method
       IN /\ called'.returned <=> taskName \in TaskNames
          /\ taskName \notin TaskNames =>
               /\ tasks' = tasks
               /\ UNCHANGED otherThanSchedAndApi
          /\ (taskName \in TaskNames /\ method \in {"enableTask", "disableTask"}) =>
               /\ tasks' = [tasks EXCEPT
                              ![taskName].enabled = (method = "enableTask")]
               /\ UNCHANGED otherThanSchedAndApi]_vars

\* disableTask has just returned true for a task that has run twice and
\* failed once, and the task is disabled with those counts.
C37_Witness ==
  /\ called.method = "disableTask" /\ called.returned
  /\ called.taskName \in TaskNames
  /\ ~tasks[called.taskName].enabled
  /\ tasks[called.taskName].runCount = 2
  /\ tasks[called.taskName].errorCount = 1

\* C38: a tool call never lets an exception reach its caller, and once it
\* has responded: the response has isError exactly when the handling threw
\* (an unknown tool name, an unsupported technology or an out-of-range year
\* in generate_best_practices, a failed archive or deploy in
\* update_rule_file, any await of a handler that rejected), and it is a
\* response without isError only when the handler reached its return, which
\* for update_rule_file means archive and deploy are done.
C38_ToolCallNeverThrows ==
  /\ toolCall.response # "thrown"
  /\ toolCall.pc = "responded" =>
       /\ toolCall.response \in {"content", "isError"}
       /\ toolCall.response = "isError" <=> toolCall.failedAt # "none"
       /\ toolCall.response = "content" <=> toolCall.completed
       /\ toolCall.name \notin ToolNames => toolCall.response = "isError"
       /\ (toolCall.name = "generate_best_practices"
             /\ (toolCall.technology \notin {"python", "java"}
                   \/ toolCall.year \in {"2023", "2031"}))
            => toolCall.response = "isError"
       /\ toolCall.name = "update_rule_file" =>
            /\ runs[toolCall.n].pc \in {"done", "failed"}
            /\ toolCall.response = "isError" <=> runs[toolCall.n].pc = "failed"

\* update_rule_file has answered with isError after its archive or deploy
\* failed, following a first call that returned content.
C38_Witness ==
  /\ toolCall.n = 2
  /\ toolCall.pc = "responded"
  /\ toolCall.name = "update_rule_file"
  /\ toolCall.response = "isError"
  /\ runs[2].pc = "failed"

\* C39: the message history never holds more than maxHistorySize (1000)
\* entries; it holds the entries of the most recent broadcast calls, oldest
\* first; and every broadcast call appends exactly one entry, the oldest
\* one making room when the history is full, whether or not a client is
\* sent the message.
C39_HistoryBounded ==
  /\ [](/\ Len(messageHistory) <= MaxHistorySize
        /\ Len(messageHistory) = Min(broadcasts.calls, MaxHistorySize)
        /\ \A i \in 1..Len(messageHistory) :
             messageHistory[i] =
               HistoryEntry(broadcasts.calls - Len(messageHistory) + i))
  /\ [][/\ messageHistory' # messageHistory =>
             broadcasts'.calls = broadcasts.calls + 1
        /\ broadcasts'.calls = broadcasts.calls + 1 =>
             LET entry == HistoryEntry(broadcasts'.calls)
             IN messageHistory' =
                  IF Len(messageHistory) < MaxHistorySize
                  THEN Append(messageHistory, entry)
                  ELSE Append(Tail(messageHistory), entry)]_vars

\* The history is full and has dropped its two oldest entries, the last
\* broadcast having reached nobody although a client is connected.
C39_Witness ==
  /\ Len(messageHistory) = MaxHistorySize
  /\ broadcasts.calls = MaxHistorySize + 2
  /\ messageHistory[1] = HistoryEntry(3)
  /\ received = {}
  /\ Registered # {}


(***************************************************************************)
(* The client limit: connections against a small configured limit, with    *)
(* every way a client leaves the registry.                                 *)
(***************************************************************************)

\* The values MAX_WEBSOCKET_CLIENTS is set to here (any string of digits is
\* accepted, zero included).
LimitsConfigured == {0, 1, 2}

\* One client in the heartbeat's loop: a socket that is not OPEN is deleted
\* (continue); an OPEN one is pinged and deleted when ping() throws; then a
\* stale one is closed with 1001 and deleted.
HeartbeatClient(client, threw, stale) ==
  IF client.readyState # "OPEN"
  THEN Deleted(client)
  ELSE LET pinged == IF threw THEN Deleted(client) ELSE client
       IN IF stale
          THEN [Deleted(pinged) EXCEPT !.readyState = "CLOSED"]
          ELSE pinged

\* startHeartbeat's interval callback over the registered clients; which
\* pings throw and which clients have been silent for five minutes is the
\* environment's choice.
startHeartbeat ==
  /\ Registered # {}
  /\ \E threw \in SUBSET Registered, stale \in SUBSET Registered :
       clients' = [c \in ClientIds |->
                     IF c \in Registered
                     THEN HeartbeatClient(clients[c], c \in threw, c \in stale)
                     ELSE clients[c]]
  /\ UNCHANGED <<received, broadcasts, otherThanHub>>

LimitInit ==
  /\ ruleFile = [t \in RuleTypes |-> NoFile]
  /\ historyFile = [t \in RuleTypes |-> <<>>]
  /\ hist0 = [t \in RuleTypes |-> 0]
  /\ archiveDir = {}
  /\ deploymentFile = [t \in RuleTypes |-> NoDeployment]
  /\ clock = 1
  /\ faults = 0
  /\ runs = [r \in RunIds |-> IdleRun]
  /\ QueueIdle
  /\ SchedIdle
  /\ TrendIdle
  /\ OpsIdle
  /\ ScoreIdle
  /\ SweepIdle
  /\ HubIdle
  /\ GenIdle
  /\ ApiIdle
  /\ McpIdle
  /\ LogIdle
  /\ maxWebSocketClients \in LimitsConfigured

LimitNext ==
  \/ \E c \in ClientIds : connection(c)
  \/ \E c \in ClientIds : SocketCloses(c)
  \/ \E c \in ClientIds : OnClose(c)
  \/ sendSummary
  \/ startHeartbeat

SpecLimit == LimitInit /\ [][LimitNext]_vars

\* C40: the registry never holds more than maxWebSocketClients clients; a
\* connection arriving at a full registry is closed and not registered, one
\* arriving below the limit is accepted, and every removal (close, error,
\* failed send, heartbeat) leaves the registry below the limit.
C40_ClientLimit ==
  /\ [](Cardinality(Registered) <= maxWebSocketClients)
  /\ [][\A c \in ClientIds :
          /\ (clients[c].readyState = "NONE" /\ clients'[c].readyState # "NONE")
               => IF Cardinality(Registered) >= maxWebSocketClients
                  THEN /\ clients'[c].readyState = "CLOSED"
                       /\ ~clients'[c].connected
                       /\ {o \in ClientIds : clients'[o].connected} = Registered
                  ELSE /\ clients'[c].readyState = "OPEN"
                       /\ {o \in ClientIds : clients'[o].connected}
                            \subseteq Registered \cup {c}
          /\ (clients[c].connected /\ ~clients'[c].connected)
               => Cardinality({o \in ClientIds : clients'[o].connected})
                    < maxWebSocketClients]_vars

\* Two clients fill a registry limited to two and the third connection has
\* been closed without being registered.
C40_Witness ==
  /\ maxWebSocketClients = 2
  /\ \A c \in {1, 2} : clients[c].connected /\ clients[c].readyState = "OPEN"
  /\ clients[3].readyState = "CLOSED"
  /\ ~clients[3].connected
====
